---------------------------- MODULE Spec2Model ----------------------------
(***************************************************************************)
(* Model of the portfolio backend: the flat-file section store behind the  *)
(* REST routes (routes/portfolio.js), the schema validation                *)
(* (validation/schemas.js) and the LinkedIn CSV importer                   *)
(* (routes/linkedin.js).                                                   *)
(*                                                                         *)
(* JavaScript strings are TLA+ strings; a character of s is SubSeq(s,i,i). *)
(* A JavaScript object whose key order matters (categorizedSkills,         *)
(* finalSkills) is a sequence of key/value entries in insertion order; a   *)
(* parsed CSV row is a function from its header keys to strings.           *)
(***************************************************************************)
EXTENDS Integers, Sequences, FiniteSets, TLC

VARIABLES
    pc,               \* position of the pure-function pipelines
    csvContent,       \* text of the uploaded skills file (file.buffer.toString)
    csvData,          \* parseLinkedInCSV's result object
    userPreferences,  \* categorization preferences given to the transformer
    portfolioData,    \* transformLinkedInData's outcome
    store,            \* data/<section>.json: the file of each section
    preferencesFile,  \* data/categorization.json
    written,          \* history: the document of the last completed write of a section
    response,         \* the last request and the response it got
    consoleErrors,    \* what the last request logged with console.error
    requests,         \* number of requests served
    disk,             \* the text of each section file, under concurrent requests
    handlers,         \* the concurrent requests in flight and how far each has run
    dataDir,          \* data/ as the server finds it when it starts
    exampleDir,       \* data_example/
    starts            \* number of times the server was started

pipelineVars == <<pc, csvContent, csvData, userPreferences, portfolioData>>

storeVars == <<store, preferencesFile, written, response, consoleErrors, requests>>

raceVars == <<disk, handlers>>

startupVars == <<dataDir, exampleDir, starts>>

vars == <<pc, csvContent, csvData, userPreferences, portfolioData,
          store, preferencesFile, written, response, consoleErrors, requests,
          disk, handlers, dataDir, exampleDir, starts>>

-----------------------------------------------------------------------------
(* String primitives of the JavaScript runtime used by the source.         *)

CharAt(s, i) == SubSeq(s, i, i)

UpperChars == "ABCDEFGHIJKLMNOPQRSTUVWXYZ"
LowerChars == "abcdefghijklmnopqrstuvwxyz"

\* the lower-case letter of every upper-case letter
LowerTable ==
    [c \in {CharAt(UpperChars, i) : i \in 1..Len(UpperChars)} |->
        CharAt(LowerChars, CHOOSE i \in 1..Len(UpperChars) : CharAt(UpperChars, i) = c)]

LowerChar(c) == IF c \in DOMAIN LowerTable THEN LowerTable[c] ELSE c

\* the characters lo..hi of s in lower case
RECURSIVE LowerBetween(_, _, _)
LowerBetween(s, lo, hi) ==
    IF lo > hi THEN ""
    ELSE IF lo = hi THEN LowerChar(CharAt(s, lo))
    ELSE LowerBetween(s, lo, (lo + hi) \div 2) \o LowerBetween(s, (lo + hi) \div 2 + 1, hi)

\* String.prototype.toLowerCase
ToLowerCase(s) == LowerBetween(s, 1, Len(s))

\* String.prototype.includes
Includes(s, sub) ==
    \E i \in 0..(Len(s) - Len(sub)) : SubSeq(s, i + 1, i + Len(sub)) = sub

IsSpace(c) == c \in {" ", "\t", "\n", "\r"}

RECURSIVE TrimStart(_)
TrimStart(s) ==
    IF Len(s) > 0 /\ IsSpace(CharAt(s, 1)) THEN TrimStart(SubSeq(s, 2, Len(s))) ELSE s

RECURSIVE TrimEnd(_)
TrimEnd(s) ==
    IF Len(s) > 0 /\ IsSpace(CharAt(s, Len(s)))
    THEN TrimEnd(SubSeq(s, 1, Len(s) - 1)) ELSE s

\* String.prototype.trim
Trim(s) == TrimEnd(TrimStart(s))

\* String.prototype.split with a one-character separator: the pieces between
\* the occurrences of the separator
Split(s, sep) ==
    LET cuts == {i \in 1..Len(s) : CharAt(s, i) = sep}
        n == Cardinality(cuts)
        cut(k) == IF k = 0 THEN 0
                  ELSE IF k = n + 1 THEN Len(s) + 1
                  ELSE CHOOSE p \in cuts : Cardinality({q \in cuts : q < p}) = k - 1
    IN [k \in 1..(n + 1) |-> SubSeq(s, cut(k - 1) + 1, cut(k) - 1)]

\* String.prototype.replace(pattern, rep) with a string pattern of one
\* character: only the first occurrence is replaced.
ReplaceFirst(s, c, rep) ==
    IF \E i \in 1..Len(s) : CharAt(s, i) = c
    THEN LET i == CHOOSE j \in 1..Len(s) :
                      /\ CharAt(s, j) = c
                      /\ \A k \in 1..(j - 1) : CharAt(s, k) # c
         IN SubSeq(s, 1, i - 1) \o rep \o SubSeq(s, i + 1, Len(s))
    ELSE s

MapSeq(f(_), seq) == [i \in 1..Len(seq) |-> f(seq[i])]

-----------------------------------------------------------------------------
(* CSV parsing, routes/linkedin.js.                                        *)

\* csvContent.split('\n').filter(line => line.trim())
CsvLines(content) == SelectSeq(Split(content, "\n"), LAMBDA line : Len(Trim(line)) > 0)

\* line.split(',').map(x => x.trim())
CsvFields(line) == MapSeq(Trim, Split(line, ","))

\* headers.forEach((header, index) => { row[header.toLowerCase()] = data[index] || '' })
\* a header that occurs twice keeps the value of its last column
RowRecord(headers, data) ==
    [k \in {ToLowerCase(headers[i]) : i \in 1..Len(headers)} |->
        LET last == CHOOSE i \in 1..Len(headers) :
                        /\ ToLowerCase(headers[i]) = k
                        /\ \A j \in (i + 1)..Len(headers) : ToLowerCase(headers[j]) # k
        IN IF last <= Len(data) THEN data[last] ELSE ""]

\* the loop "for (let i = 1; i < lines.length; i++)" of the header-mapped parsers
HeaderMappedRows(lines) ==
    [i \in 1..(Len(lines) - 1) |-> RowRecord(CsvFields(lines[1]), CsvFields(lines[i + 1]))]

\* the simple branch of parseSkillsCSV: every line after the first is a bare
\* name, pushed when its trimmed text is non-empty
SimpleSkillRows(lines) ==
    SelectSeq([i \in 1..(Len(lines) - 1) |->
                  [name |-> Trim(lines[i + 1]), level |-> "intermediate"]],
              LAMBDA skill : Len(skill.name) > 0)

parseSkillsCSV(content) ==
    LET lines == CsvLines(content) IN
    IF Len(lines) = 0 THEN <<>>
    ELSE IF Len(lines) = 1 \/ (Len(lines) > 1 /\ Includes(ToLowerCase(lines[1]), "name"))
         THEN SimpleSkillRows(lines)
         ELSE HeaderMappedRows(lines)

\* parseProfileCSV: throws unless there are a header line and a data line
parseProfileCSV(content) ==
    LET lines == CsvLines(content) IN
    IF Len(lines) < 2 THEN [threw |-> TRUE, value |-> <<>>]
    ELSE [threw |-> FALSE,
          value |-> <<RowRecord(CsvFields(lines[1]), CsvFields(lines[2]))>>]

\* parsePositionsCSV and parseEducationCSV (the same code): lines[0].split
\* throws a TypeError when no line is left
parseRowsCSV(content) ==
    LET lines == CsvLines(content) IN
    IF Len(lines) = 0 THEN [threw |-> TRUE, value |-> <<>>]
    ELSE [threw |-> FALSE, value |-> HeaderMappedRows(lines)]

parsePositionsCSV(content) == parseRowsCSV(content)

parseEducationCSV(content) == parseRowsCSV(content)

\* one iteration of the loop of parseLinkedInCSV: the first matching file kind
\* is parsed into its field of csvData; a throwing parser leaves csvData as it
\* was (the catch only logs)
ParseFile(data, file) ==
    LET fileName == ToLowerCase(file.originalname) IN
    IF Includes(fileName, "profile")
    THEN LET r == parseProfileCSV(file.content)
         IN IF r.threw THEN data ELSE [data EXCEPT !.profile = r.value]
    ELSE IF Includes(fileName, "position")
    THEN LET r == parsePositionsCSV(file.content)
         IN IF r.threw THEN data ELSE [data EXCEPT !.positions = r.value]
    ELSE IF Includes(fileName, "skill")
    THEN [data EXCEPT !.skills = parseSkillsCSV(file.content)]
    ELSE IF Includes(fileName, "education")
    THEN LET r == parseEducationCSV(file.content)
         IN IF r.threw THEN data ELSE [data EXCEPT !.education = r.value]
    ELSE data

\* the initial csvData of parseLinkedInCSV; profile is a sequence of length 0
\* (null) or 1
EmptyCsvData == [profile |-> <<>>, positions |-> <<>>, skills |-> <<>>, education |-> <<>>]

RECURSIVE ParseFiles(_, _)
ParseFiles(files, n) ==
    IF n = 0 THEN EmptyCsvData ELSE ParseFile(ParseFiles(files, n - 1), files[n])

parseLinkedInCSV(files) == ParseFiles(files, Len(files))

\* the files whose parser threw: what the catch of parseLinkedInCSV logs
ParseErrors(files) ==
    {i \in 1..Len(files) :
        LET fileName == ToLowerCase(files[i].originalname) IN
        IF Includes(fileName, "profile") THEN parseProfileCSV(files[i].content).threw
        ELSE IF Includes(fileName, "position") THEN parsePositionsCSV(files[i].content).threw
        ELSE IF Includes(fileName, "skill") THEN FALSE
        ELSE IF Includes(fileName, "education") THEN parseEducationCSV(files[i].content).threw
        ELSE FALSE}

-----------------------------------------------------------------------------
(* Skill categorization, transformLinkedInData in routes/linkedin.js.      *)

roleCategories ==
    <<
      [role |-> "Frontend Development", subcategories |-> <<
          [subcategory |-> "Languages",
           skills |-> << "javascript", "typescript", "html", "css" >>],
          [subcategory |-> "Frameworks",
           skills |-> << "react", "vue", "angular", "svelte", "next.js", "nuxt.js" >>],
          [subcategory |-> "Styling",
           skills |-> << "sass", "less", "bootstrap", "tailwind", "styled-components" >>],
          [subcategory |-> "Build Tools",
           skills |-> << "webpack", "vite", "parcel", "gulp" >>] >>],
      [role |-> "Backend Development", subcategories |-> <<
          [subcategory |-> "Languages",
           skills |-> << "python", "java", "c#", "go", "php", "ruby", "node.js" >>],
          [subcategory |-> "Frameworks",
           skills |-> << "express", "django", "spring", "fastapi", "laravel", "asp.net" >>],
          [subcategory |-> "APIs",
           skills |-> << "rest", "graphql", "grpc", "soap" >>],
          [subcategory |-> "Architecture",
           skills |-> << "microservices", "monolith", "serverless", "event-driven" >>] >>],
      [role |-> "Data & Analytics", subcategories |-> <<
          [subcategory |-> "Databases",
           skills |-> << "mongodb", "postgresql", "mysql", "sqlite", "redis", "elasticsearch" >>],
          [subcategory |-> "Big Data",
           skills |-> << "hadoop", "spark", "kafka", "airflow", "snowflake" >>],
          [subcategory |-> "Analytics",
           skills |-> << "tableau", "power bi", "python pandas", "numpy" >>],
          [subcategory |-> "Machine Learning",
           skills |-> << "tensorflow", "pytorch", "scikit-learn", "keras" >>] >>],
      [role |-> "DevOps & Infrastructure", subcategories |-> <<
          [subcategory |-> "Cloud",
           skills |-> << "aws", "azure", "google cloud", "gcp" >>],
          [subcategory |-> "Containers",
           skills |-> << "docker", "kubernetes", "podman", "rancher" >>],
          [subcategory |-> "CI/CD",
           skills |-> << "jenkins", "gitlab ci", "github actions", "circleci" >>],
          [subcategory |-> "Monitoring",
           skills |-> << "prometheus", "grafana", "elk stack", "datadog" >>] >>],
      [role |-> "Tools & Platforms", subcategories |-> <<
          [subcategory |-> "Version Control",
           skills |-> << "git", "github", "gitlab", "bitbucket" >>],
          [subcategory |-> "Project Management",
           skills |-> << "jira", "confluence", "notion", "trello" >>],
          [subcategory |-> "Development",
           skills |-> << "vs code", "intellij", "postman", "swagger" >>],
          [subcategory |-> "Testing",
           skills |-> << "jest", "cypress", "selenium", "junit" >>] >>],
      [role |-> "Other", subcategories |-> <<
          [subcategory |-> "General",
           skills |-> << "leadership", "communication", "problem solving", "teamwork" >>],
          [subcategory |-> "Soft Skills",
           skills |-> << "presentation", "negotiation", "mentoring", "collaboration" >>],
          [subcategory |-> "Domain Knowledge",
           skills |-> << "finance", "healthcare", "ecommerce", "education" >>],
          [subcategory |-> "Certifications",
           skills |-> << "pmp", "scrum", "agile", "six sigma" >>] >>]
    >>

roleOrder ==
    << "Frontend Development", "Backend Development", "Data & Analytics",
       "DevOps & Infrastructure", "Tools & Platforms", "Other" >>

\* record.key is a non-empty string (the operand of || is truthy)
Truthy(record, key) == key \in DOMAIN record /\ Len(record[key]) > 0

\* skill.name || skill.skill_name || skill : the last operand is the row object
\* itself, on which toLowerCase() is not a function
SkillNameIsString(skill) == Truthy(skill, "name") \/ Truthy(skill, "skill_name")

SkillName(skill) ==
    IF Truthy(skill, "name") THEN skill["name"] ELSE skill["skill_name"]

\* skill.level || skill.proficiency || 'intermediate'
SkillLevel(skill) ==
    IF Truthy(skill, "level") THEN skill["level"]
    ELSE IF Truthy(skill, "proficiency") THEN skill["proficiency"]
    ELSE "intermediate"

\* the five spellings of a keyword the predicate tries: keyword itself and
\* keyword.replace(' ', x) for x in '', '-', '.', '_'
KeywordSpellings(keyword) ==
    { keyword, ReplaceFirst(keyword, " ", ""), ReplaceFirst(keyword, " ", "-"),
      ReplaceFirst(keyword, " ", "."), ReplaceFirst(keyword, " ", "_") }

\* the predicate given to skills.some(...): a disjunction of includes() calls
KeywordMatches(skillNameLower, skillKeyword) ==
    \E spelling \in KeywordSpellings(ToLowerCase(skillKeyword)) :
        Includes(skillNameLower, spelling)

SubcategoryMatches(skillNameLower, sub) ==
    \E k \in 1..Len(sub.skills) : KeywordMatches(skillNameLower, sub.skills[k])

\* the inner loop over Object.entries(subcategories): index of the first
\* subcategory with a matching keyword, 0 when the loop ends without a break
FirstMatchingSubcategory(skillNameLower, subs) ==
    IF \E s \in 1..Len(subs) : SubcategoryMatches(skillNameLower, subs[s])
    THEN CHOOSE s \in 1..Len(subs) :
            /\ SubcategoryMatches(skillNameLower, subs[s])
            /\ \A t \in 1..(s - 1) : ~SubcategoryMatches(skillNameLower, subs[t])
    ELSE 0

\* ScanRoles without the break after a match: the last matching role wins
RECURSIVE ScanRoles_NoBreak(_, _, _)
ScanRoles_NoBreak(skillNameLower, r, assigned) ==
    IF r > Len(roleCategories) THEN assigned
    ELSE LET entry == roleCategories[r]
             s == FirstMatchingSubcategory(skillNameLower, entry.subcategories)
             now == IF s = 0 THEN assigned
                    ELSE [role |-> entry.role,
                          subcategory |-> <<entry.subcategories[s].subcategory>>]
         IN ScanRoles_NoBreak(skillNameLower, r + 1, now)

\* the outer loop over Object.entries(roleCategories), from role index r on;
\* assigned is (assignedRole, assignedSubcategory), the subcategory a sequence
\* of length 0 (null) or 1; the loop stops once assignedRole is not 'Other'
RECURSIVE ScanRoles(_, _, _)
ScanRoles(skillNameLower, r, assigned) ==
    IF r > Len(roleCategories) THEN assigned
    ELSE LET entry == roleCategories[r]
             s == FirstMatchingSubcategory(skillNameLower, entry.subcategories)
             now == IF s = 0 THEN assigned
                    ELSE [role |-> entry.role,
                          subcategory |-> <<entry.subcategories[s].subcategory>>]
         IN IF now.role # "Other" THEN now
            ELSE ScanRoles(skillNameLower, r + 1, now)

\* AssignSkill without the lower-casing of the skill name
AssignSkill_CaseSensitive(skillName) ==
    ScanRoles(skillName, 1, [role |-> "Other", subcategory |-> <<>>])

AssignSkill(skillName) ==
    ScanRoles(ToLowerCase(skillName), 1, [role |-> "Other", subcategory |-> <<>>])

\* ---- the skill names of the model's inputs

ToolsPool ==
    << "Git", "Jira", "Postman", "Jest", "GitHub", "Confluence", "Swagger", "Cypress",
       "GitLab", "Trello", "Selenium", "Notion" >>

MixedPool ==
    << "React", "JavaScript", "Spring Boot", "Docker", "Vue.js", "Python", "Leadership",
       "Express", "Cooking", "CSS", "Django", "Kubernetes" >>

SpringPool ==
    << "Spring Boot", "spring-boot", "React", "spring.boot", "SpringBoot", "spring_boot",
       "SPRING BOOT", "Git", "sPrInG.bOoT", "Spring-Boot" >>

SkillPools == { ToolsPool, MixedPool, SpringPool }

\* AssignSkill on every skill name of the pools, as a table that is evaluated
\* once; Assignment is AssignSkill, read from the table where it has the name
SkillAssignments ==
    [name \in UNION {{pool[i] : i \in 1..Len(pool)} : pool \in SkillPools} |->
        AssignSkill(name)]

Assignment(skillName) ==
    IF skillName \in DOMAIN SkillAssignments
    THEN SkillAssignments[skillName] ELSE AssignSkill(skillName)

\* index of the entry of an ordered object with the given key, 0 when absent
KeyIndex(entries, field, key) ==
    IF \E i \in 1..Len(entries) : entries[i][field] = key
    THEN CHOOSE i \in 1..Len(entries) : entries[i][field] = key
    ELSE 0

\* categorizedSkills[role][subcategory].push(entry), creating the role and the
\* subcategory on first use
PushSkill(categorized, role, subcategory, entry) ==
    LET withRole == IF KeyIndex(categorized, "role", role) = 0
                    THEN Append(categorized, [role |-> role, subcategories |-> <<>>])
                    ELSE categorized
        ri == KeyIndex(withRole, "role", role)
        subs == withRole[ri].subcategories
        withSub == IF KeyIndex(subs, "subcategory", subcategory) = 0
                   THEN Append(subs, [subcategory |-> subcategory, skills |-> <<>>])
                   ELSE subs
        si == KeyIndex(withSub, "subcategory", subcategory)
    IN [withRole EXCEPT ![ri].subcategories =
            [withSub EXCEPT ![si].skills = Append(@, entry)]]

\* csvData.skills.forEach(skill => ...), over the first n skills
RECURSIVE CategorizeSkills(_, _)
CategorizeSkills(skills, n) ==
    IF n = 0 THEN <<>>
    ELSE LET skill == skills[n]
             assigned == Assignment(SkillName(skill))
             subcategory == IF Len(assigned.subcategory) > 0
                            THEN assigned.subcategory[1] ELSE "Other"
         IN PushSkill(CategorizeSkills(skills, n - 1), assigned.role, subcategory,
                      [name |-> SkillName(skill), level |-> SkillLevel(skill)])

\* Array.prototype.indexOf on roleOrder, -1 when absent
RoleOrderIndex(role) ==
    IF \E i \in 1..Len(roleOrder) : roleOrder[i] = role
    THEN (CHOOSE i \in 1..Len(roleOrder) : roleOrder[i] = role) - 1
    ELSE -1

\* insertion of index x into a sorted sequence of indices, after every index
\* it does not strictly precede; cmp[i][j] is the comparator's value on the
\* elements i and j
RECURSIVE InsertSorted(_, _, _)
InsertSorted(sorted, x, cmp) ==
    IF Len(sorted) = 0 THEN <<x>>
    ELSE IF cmp[x][sorted[Len(sorted)]] < 0
         THEN Append(InsertSorted(SubSeq(sorted, 1, Len(sorted) - 1), x, cmp),
                     sorted[Len(sorted)])
         ELSE Append(sorted, x)

RECURSIVE SortIndices(_, _)
SortIndices(n, cmp) ==
    IF n = 0 THEN <<>> ELSE InsertSorted(SortIndices(n - 1, cmp), n, cmp)

\* Array.prototype.sort(compareFn) with a consistent comparator: the sort is
\* stable, so its result is the one of a stable insertion sort
StableSort(seq, Compare(_, _)) ==
    LET cmp == [i \in 1..Len(seq) |-> [j \in 1..Len(seq) |-> Compare(seq[i], seq[j])]]
        order == SortIndices(Len(seq), cmp)
    IN [k \in 1..Len(seq) |-> seq[order[k]]]

\* the roles in the order in which the skills created them, unsorted
SortedRoles_DiscoveryOrder(categorized) ==
    [i \in 1..Len(categorized) |-> categorized[i].role]

\* Object.keys(categorizedSkills).sort((a, b) => roleOrder.indexOf(a) - roleOrder.indexOf(b))
SortedRoles(categorized) ==
    StableSort([i \in 1..Len(categorized) |-> categorized[i].role],
               LAMBDA a, b : RoleOrderIndex(a) - RoleOrderIndex(b))

\* Object.values(subcategories).flat()
RECURSIVE FlatSkills(_)
FlatSkills(subs) ==
    IF Len(subs) = 0 THEN <<>>
    ELSE FlatSkills(SubSeq(subs, 1, Len(subs) - 1)) \o subs[Len(subs)].skills

\* userPreferences.categoryOverrides?.[role] === value
OverrideIs(prefs, role, value) ==
    /\ "categoryOverrides" \in DOMAIN prefs
    /\ role \in DOMAIN prefs.categoryOverrides
    /\ prefs.categoryOverrides[role] = value

\* userPreferences.useSubcategories is truthy (undefined when the field is absent)
UseSubcategories(prefs) ==
    "useSubcategories" \in DOMAIN prefs /\ prefs.useSubcategories

\* totalSkills < userPreferences.minSkillsForSubcategory (false against undefined)
BelowMin(prefs, totalSkills) ==
    "minSkillsForSubcategory" \in DOMAIN prefs
        /\ totalSkills < prefs.minSkillsForSubcategory

\* AtLeastMin with > for >=
AtLeastMin_Strict(prefs, totalSkills) ==
    "minSkillsForSubcategory" \in DOMAIN prefs
        /\ totalSkills > prefs.minSkillsForSubcategory

\* totalSkills >= userPreferences.minSkillsForSubcategory (false against undefined)
AtLeastMin(prefs, totalSkills) ==
    "minSkillsForSubcategory" \in DOMAIN prefs
        /\ totalSkills >= prefs.minSkillsForSubcategory

\* FinalRole with the count rule tested before the "flat" override
FinalRole_ThresholdFirst(role, subcategories, prefs) ==
    LET totalSkills == Len(FlatSkills(subcategories)) IN
    IF OverrideIs(prefs, role, "subcategories")
          \/ (UseSubcategories(prefs) /\ AtLeastMin(prefs, totalSkills))
    THEN [role |-> role, isArray |-> FALSE, skills |-> <<>>,
          subcategories |-> SelectSeq(subcategories, LAMBDA sub : Len(sub.skills) > 0)]
    ELSE [role |-> role, isArray |-> TRUE, skills |-> FlatSkills(subcategories),
          subcategories |-> <<>>]

\* the body of sortedRoles.forEach(role => ...): the value stored at
\* finalSkills[role], an array (isArray) or an object of subcategory arrays
FinalRole(role, subcategories, prefs) ==
    LET totalSkills == Len(FlatSkills(subcategories)) IN
    IF OverrideIs(prefs, role, "flat")
          \/ (~UseSubcategories(prefs) /\ BelowMin(prefs, totalSkills))
    THEN [role |-> role, isArray |-> TRUE, skills |-> FlatSkills(subcategories),
          subcategories |-> <<>>]
    ELSE IF OverrideIs(prefs, role, "subcategories")
               \/ (UseSubcategories(prefs) /\ AtLeastMin(prefs, totalSkills))
    THEN [role |-> role, isArray |-> FALSE, skills |-> <<>>,
          subcategories |-> SelectSeq(subcategories, LAMBDA sub : Len(sub.skills) > 0)]
    ELSE [role |-> role, isArray |-> TRUE, skills |-> FlatSkills(subcategories),
          subcategories |-> <<>>]

FinalSkills(categorized, prefs) ==
    LET sortedRoles == SortedRoles(categorized) IN
    [i \in 1..Len(sortedRoles) |->
        FinalRole(sortedRoles[i],
                  categorized[KeyIndex(categorized, "role", sortedRoles[i])].subcategories,
                  prefs)]

\* the categorization object stored with the skills: a property whose value is
\* undefined is left out, as JSON.stringify and res.json leave it out
CategorizationOf(prefs) ==
    [k \in (DOMAIN prefs \cap {"useSubcategories", "minSkillsForSubcategory"})
            \cup {"categoryOverrides"} |->
        IF k = "categoryOverrides"
        THEN (IF k \in DOMAIN prefs THEN prefs[k] ELSE <<>>)
        ELSE prefs[k]]

\* a transformer that takes its preferences from the preferences file when
\* the file exists
TransformSkills_Ambient(skills, prefs) ==
    LET ambient == IF Len(preferencesFile) = 1 /\ Len(preferencesFile[1].json) = 1
                   THEN preferencesFile[1].json[1] ELSE prefs
    IN [skillCategories |-> FinalSkills(CategorizeSkills(skills, Len(skills)), ambient),
        categorization |-> CategorizationOf(ambient)]

\* the "Transform skills data" block: portfolioData.skills
TransformSkills(skills, prefs) ==
    [skillCategories |-> FinalSkills(CategorizeSkills(skills, Len(skills)), prefs),
     categorization |-> CategorizationOf(prefs)]

-----------------------------------------------------------------------------
(* Field mapping and the whole transformer, routes/linkedin.js.            *)

\* FirstTruthy with the aliases tried from the last to the first
FirstTruthy_LastAlias(record, keys, fallback) ==
    IF \E i \in 1..Len(keys) : Truthy(record, keys[i])
    THEN record[keys[CHOOSE i \in 1..Len(keys) :
                        /\ Truthy(record, keys[i])
                        /\ \A j \in (i + 1)..Len(keys) : ~Truthy(record, keys[j])]]
    ELSE fallback

\* record.k1 || record.k2 || ... || fallback
FirstTruthy(record, keys, fallback) ==
    IF \E i \in 1..Len(keys) : Truthy(record, keys[i])
    THEN record[keys[CHOOSE i \in 1..Len(keys) :
                        /\ Truthy(record, keys[i])
                        /\ \A j \in 1..(i - 1) : ~Truthy(record, keys[j])]]
    ELSE fallback

TransformPersonalInfo(profile) ==
    [name |-> FirstTruthy(profile, <<"full_name", "name">>, "Your Name"),
     title |-> FirstTruthy(profile, <<"headline", "title">>, "Software Developer"),
     location |-> FirstTruthy(profile, <<"location">>, "Your Location"),
     bio |-> FirstTruthy(profile, <<"summary">>, "A passionate software developer...")]

TransformAbout(profile) ==
    [content |-> FirstTruthy(profile, <<"summary">>, "I am a passionate software developer...")]

\* endDate is a sequence of length 0 (null) or 1 (a string)
TransformJob(position) ==
    [title |-> FirstTruthy(position, <<"title", "job_title">>, "Software Developer"),
     company |-> FirstTruthy(position, <<"company", "organization">>, "Company Name"),
     startDate |-> FirstTruthy(position, <<"start_date", "from">>, "2023-01"),
     endDate |-> IF Truthy(position, "end_date") THEN <<position["end_date"]>>
                 ELSE IF Truthy(position, "to") THEN <<position["to"]>>
                 ELSE <<>>,
     isCurrent |-> \/ ("is_current" \in DOMAIN position /\ position["is_current"] = "true")
                   \/ ("current" \in DOMAIN position /\ position["current"] = "true"),
     location |-> FirstTruthy(position, <<"location">>, "remote"),
     country |-> FirstTruthy(position, <<"country">>, "Your Country"),
     city |-> FirstTruthy(position, <<"city">>, "Your City"),
     description |-> FirstTruthy(position, <<"description">>,
                                 "Develop and maintain web applications..."),
     achievements |-> IF Truthy(position, "achievements")
                      THEN Split(position["achievements"], ";")
                      ELSE <<"Developed and deployed 3 major features",
                             "Improved application performance by 30%">>,
     skills |-> IF Truthy(position, "skills")
                THEN MapSeq(Trim, Split(position["skills"], ","))
                ELSE <<"React", "Node.js", "JavaScript">>]

TransformExperience(positions) == [jobs |-> MapSeq(TransformJob, positions)]

TransformDegree(edu) ==
    [degree |-> FirstTruthy(edu, <<"degree", "degree_name">>, "Bachelor's Degree"),
     school |-> FirstTruthy(edu, <<"school", "institution">>, "University Name"),
     field |-> FirstTruthy(edu, <<"field", "major">>, "Computer Science"),
     startDate |-> FirstTruthy(edu, <<"start_date", "from">>, "2019-09"),
     endDate |-> FirstTruthy(edu, <<"end_date", "to">>, "2023-05"),
     description |-> FirstTruthy(edu, <<"description">>,
                                 "Relevant coursework and projects...")]

TransformEducation(education) == [degrees |-> MapSeq(TransformDegree, education)]

\* the keys transformLinkedInData sets on portfolioData
TransformedSections(data) ==
    (IF Len(data.profile) > 0 THEN {"personalInfo", "about"} ELSE {})
        \cup (IF Len(data.positions) > 0 THEN {"experience"} ELSE {})
        \cup (IF Len(data.skills) > 0 THEN {"skills"} ELSE {})
        \cup (IF Len(data.education) > 0 THEN {"education"} ELSE {})

\* transformLinkedInData: threw when skillName.toLowerCase() is called on a
\* row object; otherwise data maps each section it built to its document
transformLinkedInData(data, prefs) ==
    IF \E i \in 1..Len(data.skills) : ~SkillNameIsString(data.skills[i])
    THEN [threw |-> TRUE, data |-> <<>>]
    ELSE [threw |-> FALSE,
          data |-> [section \in TransformedSections(data) |->
                      CASE section = "personalInfo" -> TransformPersonalInfo(data.profile[1])
                        [] section = "about" -> TransformAbout(data.profile[1])
                        [] section = "experience" -> TransformExperience(data.positions)
                        [] section = "skills" -> TransformSkills(data.skills, prefs)
                        [] section = "education" -> TransformEducation(data.education)]]

-----------------------------------------------------------------------------
(* The import pipeline as a state machine over its inputs.                 *)

DefaultPreferences ==
    [useSubcategories |-> TRUE, minSkillsForSubcategory |-> 3, categoryOverrides |-> <<>>]

NoPortfolioData == [threw |-> FALSE, data |-> <<>>]

\* the pipelines and the request handlers run after the server's start: what
\* the start found in data/ and data_example/ is not followed there
NoStartup ==
    /\ dataDir = <<>>
    /\ exampleDir = <<>>
    /\ starts = 0

\* the pipelines above run on their inputs alone: no request is served and
\* no file is touched while they run
NoRequests ==
    /\ NoStartup
    /\ store = <<>>
    /\ preferencesFile = <<>>
    /\ written = <<>>
    /\ response = <<>>
    /\ consoleErrors = {}
    /\ requests = 0
    /\ disk = <<>>
    /\ handlers = <<>>

\* parseLinkedInCSV(req.files) on the one uploaded file skills.csv
ParseSkillsFile ==
    /\ pc = "start"
    /\ csvData' = parseLinkedInCSV(<<[originalname |-> "skills.csv", content |-> csvContent]>>)
    /\ pc' = "parsed"
    /\ UNCHANGED <<csvContent, userPreferences, portfolioData>>
    /\ UNCHANGED storeVars
    /\ UNCHANGED raceVars
    /\ UNCHANGED startupVars

\* transformLinkedInData(csvData, categorization)
TransformCsv ==
    /\ pc = "parsed"
    /\ portfolioData' = transformLinkedInData(csvData, userPreferences)
    /\ pc' = "done"
    /\ UNCHANGED <<csvContent, csvData, userPreferences>>
    /\ UNCHANGED storeVars
    /\ UNCHANGED raceVars
    /\ UNCHANGED startupVars

\* ---- inputs of the skills-file pipeline

MaxCsvLines == 3

CsvLineVocabulary ==
    { "name,level", "Name", "React", "Docker", "Leadership", "React,expert", " Vue ,", "" }

RECURSIVE JoinLines(_)
JoinLines(lines) ==
    IF Len(lines) = 0 THEN ""
    ELSE IF Len(lines) = 1 THEN lines[1]
    ELSE lines[1] \o "\n" \o JoinLines(Tail(lines))

SkillsCsvInputs ==
    { JoinLines(lines) : lines \in UNION {[1..n -> CsvLineVocabulary] : n \in 0..MaxCsvLines} }

InitParse ==
    /\ pc = "start"
    /\ csvContent \in SkillsCsvInputs
    /\ csvData = EmptyCsvData
    /\ userPreferences = DefaultPreferences
    /\ portfolioData = NoPortfolioData
    /\ NoRequests

NextParse == ParseSkillsFile \/ TransformCsv

SpecParse == InitParse /\ [][NextParse]_vars

-----------------------------------------------------------------------------
(* Claims about the skills file (SpecParse).                               *)

\* the skill entries of one emitted role, flat or nested
EmittedSkills(entry) ==
    IF entry.isArray THEN entry.skills ELSE FlatSkills(entry.subcategories)

\* the emitted entry of a role in a transformer outcome, as a sequence of
\* length 0 or 1
EmittedRole(outcome, role) ==
    IF outcome.threw \/ "skills" \notin DOMAIN outcome.data THEN <<>>
    ELSE SelectSeq(outcome.data["skills"].skillCategories, LAMBDA e : e.role = role)

\* the skillCategories of a transformer outcome, empty when it built no skills
EmittedCategories(outcome) ==
    IF outcome.threw \/ "skills" \notin DOMAIN outcome.data THEN <<>>
    ELSE outcome.data["skills"].skillCategories

HeaderlessSkillsCsv == "React\nDocker\nLeadership"

\* C1: importing skills.csv whose content is the three header-less lines
\* React, Docker, Leadership yields three skill entries, React under Frontend
\* Development / Frameworks, Docker under DevOps & Infrastructure / Containers
\* and Leadership under Other / General, each with level 'intermediate'.
C1_HeaderlessSkillsImported ==
    (pc = "done" /\ csvContent = HeaderlessSkillsCsv) =>
        /\ ~portfolioData.threw
        /\ Len(csvData.skills) = 3
        /\ AssignSkill("React") = [role |-> "Frontend Development", subcategory |-> <<"Frameworks">>]
        /\ AssignSkill("Docker") = [role |-> "DevOps & Infrastructure", subcategory |-> <<"Containers">>]
        /\ AssignSkill("Leadership") = [role |-> "Other", subcategory |-> <<"General">>]
        /\ EmittedRole(portfolioData, "Frontend Development") # <<>>
        /\ EmittedSkills(EmittedRole(portfolioData, "Frontend Development")[1])
              = <<[name |-> "React", level |-> "intermediate"]>>
        /\ EmittedRole(portfolioData, "DevOps & Infrastructure") # <<>>
        /\ EmittedSkills(EmittedRole(portfolioData, "DevOps & Infrastructure")[1])
              = <<[name |-> "Docker", level |-> "intermediate"]>>
        /\ EmittedRole(portfolioData, "Other") # <<>>
        /\ EmittedSkills(EmittedRole(portfolioData, "Other")[1])
              = <<[name |-> "Leadership", level |-> "intermediate"]>>

\* the value of column i of a data row, '' when the row has fewer fields
FieldOr(fields, i) == IF i <= Len(fields) THEN fields[i] ELSE ""

\* C2: a skills CSV whose header line is name,level followed by N non-blank
\* data rows parses to exactly N records, each mapping name to the row's
\* first comma-split field and level to its second ('' when missing).
C2_NameLevelRowsParsed ==
    LET lines == CsvLines(csvContent) IN
    (pc = "parsed" /\ Len(lines) > 0 /\ lines[1] = "name,level") =>
        /\ Len(csvData.skills) = Len(lines) - 1
        /\ \A i \in 1..Len(csvData.skills) :
              csvData.skills[i] = [name |-> FieldOr(CsvFields(lines[i + 1]), 1),
                                   level |-> FieldOr(CsvFields(lines[i + 1]), 2)]

-----------------------------------------------------------------------------
(* The categorization as a function of parsed skills and preferences       *)
(* (SpecCategorize).                                                       *)

MaxSkills == 10

MaxMinSkills == 3

SkillLevels == << "beginner", "intermediate", "advanced", "expert" >>

\* the rows a skills file with n data rows parses to, names taken from a pool
SkillRows(pool, n) ==
    [i \in 1..n |-> [name |-> pool[((i - 1) % Len(pool)) + 1],
                     level |-> SkillLevels[((i - 1) % Len(SkillLevels)) + 1]]]

SkillInputs == { SkillRows(pool, n) : pool \in SkillPools, n \in 0..MaxSkills }

OverrideInputs ==
    { <<>>,
      [r \in {"Tools & Platforms"} |-> "flat"],
      [r \in {"Tools & Platforms"} |-> "subcategories"],
      [r \in {"Backend Development"} |-> "flat"],
      [r \in {"Backend Development", "Frontend Development"} |-> "subcategories"] }

\* preference objects: useSubcategories and minSkillsForSubcategory are each
\* present or absent
PreferenceInputs ==
    { [k \in keys \cup {"categoryOverrides"} |->
          CASE k = "useSubcategories" -> use
            [] k = "minSkillsForSubcategory" -> min
            [] k = "categoryOverrides" -> overrides] :
        keys \in SUBSET {"useSubcategories", "minSkillsForSubcategory"},
        use \in BOOLEAN, min \in 1..MaxMinSkills, overrides \in OverrideInputs }

InitCategorize ==
    /\ pc = "parsed"
    /\ csvContent = ""
    /\ csvData \in { [EmptyCsvData EXCEPT !.skills = skills] : skills \in SkillInputs }
    /\ userPreferences \in PreferenceInputs
    /\ portfolioData = NoPortfolioData
    /\ NoRequests

NextCategorize == TransformCsv

SpecCategorize == InitCategorize /\ [][NextCategorize]_vars

-----------------------------------------------------------------------------
(* Claims about the categorization (SpecCategorize).                       *)

\* the role each input skill is assigned to, by position
AssignedRoles(skills) ==
    [i \in 1..Len(skills) |-> Assignment(SkillName(skills[i])).role]

\* number of input skills assigned to a role
RoleCount(assignedRoles, role) ==
    Cardinality({i \in 1..Len(assignedRoles) : assignedRoles[i] = role})

HasOverride(prefs, role) ==
    "categoryOverrides" \in DOMAIN prefs /\ role \in DOMAIN prefs.categoryOverrides

Transformed == pc = "done" /\ ~portfolioData.threw

SpringBootVariants ==
    { "spring boot", "spring-boot", "spring.boot", "spring_boot", "springboot" }

IsSpringBoot(name) == ToLowerCase(name) \in SpringBootVariants

\* C3: a skill whose name is a spelling variant of Spring Boot, in any letter
\* case, is emitted under the role Backend Development and under no other.
C3_SpringBootIsBackend ==
    Transformed =>
        \A i \in 1..Len(csvData.skills) :
            IsSpringBoot(csvData.skills[i].name) =>
                LET entry == [name |-> csvData.skills[i].name, level |-> csvData.skills[i].level]
                    emitted == EmittedCategories(portfolioData)
                IN \A e \in 1..Len(emitted) :
                      (\E k \in 1..Len(EmittedSkills(emitted[e])) :
                            EmittedSkills(emitted[e])[k] = entry)
                          <=> emitted[e].role = "Backend Development"

C3_Witness ==
    /\ Transformed
    /\ \E i \in 1..Len(csvData.skills) : csvData.skills[i].name = "SPRING BOOT"
    /\ \E i \in 1..Len(csvData.skills) : csvData.skills[i].name = "spring_boot"
    /\ \E i \in 1..Len(csvData.skills) : csvData.skills[i].name = "SpringBoot"
    /\ Len(EmittedRole(portfolioData, "Backend Development")) = 1

\* C4: with useSubcategories = true and minSkillsForSubcategory = 3, a role
\* with no override is emitted as a flat sequence when exactly 2 skills were
\* assigned to it and as a nested subcategory mapping when 3 or more were.
C4_ThresholdDecidesShape ==
    (/\ Transformed
     /\ UseSubcategories(userPreferences)
     /\ "minSkillsForSubcategory" \in DOMAIN userPreferences
     /\ userPreferences.minSkillsForSubcategory = 3) =>
        LET assigned == AssignedRoles(csvData.skills) IN
        \A r \in 1..Len(roleOrder) :
            LET role == roleOrder[r]
                count == RoleCount(assigned, role)
                entry == EmittedRole(portfolioData, role)
            IN (~HasOverride(userPreferences, role) /\ count >= 2) =>
                  /\ Len(entry) = 1
                  /\ Len(EmittedSkills(entry[1])) = count
                  /\ entry[1].isArray <=> count = 2

C4_Witness ==
    /\ Transformed
    /\ UseSubcategories(userPreferences)
    /\ "minSkillsForSubcategory" \in DOMAIN userPreferences
    /\ userPreferences.minSkillsForSubcategory = 3
    /\ userPreferences.categoryOverrides = <<>>
    /\ \E e \in 1..Len(EmittedCategories(portfolioData)) :
          LET entry == EmittedCategories(portfolioData)[e]
          IN entry.isArray /\ Len(entry.skills) = 2
    /\ \E e \in 1..Len(EmittedCategories(portfolioData)) :
          LET entry == EmittedCategories(portfolioData)[e]
          IN ~entry.isArray /\ Len(FlatSkills(entry.subcategories)) = 3

\* C5: a role that categoryOverrides maps to "flat" is emitted as one flat
\* sequence holding all its skills, whatever useSubcategories,
\* minSkillsForSubcategory and the number of skills of the role are.
C5_FlatOverrideWins ==
    Transformed =>
        LET assigned == AssignedRoles(csvData.skills) IN
        \A r \in 1..Len(roleOrder) :
            LET role == roleOrder[r]
                count == RoleCount(assigned, role)
                entry == EmittedRole(portfolioData, role)
            IN (OverrideIs(userPreferences, role, "flat") /\ count > 0) =>
                  /\ Len(entry) = 1
                  /\ entry[1].isArray
                  /\ Len(entry[1].skills) = count

C5_Witness ==
    /\ Transformed
    /\ UseSubcategories(userPreferences)
    /\ AtLeastMin(userPreferences, 10)
    /\ OverrideIs(userPreferences, "Tools & Platforms", "flat")
    /\ Len(EmittedRole(portfolioData, "Tools & Platforms")) = 1
    /\ EmittedRole(portfolioData, "Tools & Platforms")[1].isArray
    /\ Len(EmittedRole(portfolioData, "Tools & Platforms")[1].skills) = 10

\* C6: a role that categoryOverrides maps to "subcategories" is emitted as a
\* nested mapping of non-empty subcategories, whatever useSubcategories,
\* minSkillsForSubcategory and the number of skills of the role are.
C6_SubcategoriesOverrideWins ==
    (/\ Transformed
     /\ {"useSubcategories", "minSkillsForSubcategory"} \subseteq DOMAIN userPreferences) =>
        LET assigned == AssignedRoles(csvData.skills) IN
        \A r \in 1..Len(roleOrder) :
            LET role == roleOrder[r]
                count == RoleCount(assigned, role)
                entry == EmittedRole(portfolioData, role)
            IN (OverrideIs(userPreferences, role, "subcategories") /\ count > 0) =>
                  /\ Len(entry) = 1
                  /\ ~entry[1].isArray
                  /\ \A s \in 1..Len(entry[1].subcategories) :
                        Len(entry[1].subcategories[s].skills) > 0

-----------------------------------------------------------------------------
(* Section documents and their schemas, validation/schemas.js.             *)
(* A document is a record of its properties; a property whose value is     *)
(* undefined is modelled as an absent property (JSON.stringify and         *)
(* res.json leave it out). A nullable string (a job's endDate) is a        *)
(* sequence of length 0 (null) or 1.                                       *)

VALID_SECTIONS == << "personalInfo", "about", "skills", "experience", "projects", "contact" >>

\* the sections saveToPortfolio writes
ImportSections == << "personalInfo", "about", "skills", "experience", "education" >>

SectionNames ==
    {VALID_SECTIONS[i] : i \in 1..Len(VALID_SECTIONS)}
        \cup {ImportSections[i] : i \in 1..Len(ImportSections)}

\* Object.values(SkillLevels), constants/skillLevels.js
SkillLevelValues == { "beginner", "intermediate", "advanced", "expert" }

\* Object.values(LocationTypes), constants/locationTypes.js
LocationTypeValues == { "remote", "onsite", "hybrid" }

Digits == "0123456789"

IsDigit(c) == \E i \in 1..Len(Digits) : CharAt(Digits, i) = c

\* the pattern /^\d{4}-\d{2}$/
IsYearMonth(s) ==
    /\ Len(s) = 7
    /\ \A i \in {1, 2, 3, 4, 6, 7} : IsDigit(CharAt(s, i))
    /\ CharAt(s, 5) = "-"

\* Joi.string().min(lo).max(hi)
StringBetween(s, lo, hi) == Len(s) >= lo /\ Len(s) <= hi

\* an optional string property that also allows ''
OptionalString(doc, key, lo, hi, allowEmpty) ==
    key \in DOMAIN doc =>
        \/ (allowEmpty /\ Len(doc[key]) = 0)
        \/ (Len(doc[key]) > 0 /\ StringBetween(doc[key], lo, hi))

RequiredString(doc, key, lo, hi) ==
    key \in DOMAIN doc /\ Len(doc[key]) > 0 /\ StringBetween(doc[key], lo, hi)

AllItems(seq, Test(_)) == \A i \in 1..Len(seq) : Test(seq[i])

\* personalInfoSchema
ValidPersonalInfo(doc) ==
    /\ RequiredString(doc, "name", 2, 100)
    /\ OptionalString(doc, "title", 2, 100, FALSE)
    /\ OptionalString(doc, "location", 2, 100, TRUE)
    /\ OptionalString(doc, "bio", 10, 500, TRUE)

\* aboutSchema
ValidAbout(doc) == RequiredString(doc, "content", 10, 1000)

\* the skill object of skillsSchema
ValidSkillEntry(skill) ==
    /\ RequiredString(skill, "name", 1, 100)
    /\ "level" \in DOMAIN skill /\ skill["level"] \in SkillLevelValues

\* one value of skillCategories: an array of skills, or an object of arrays
ValidSkillCategory(entry) ==
    IF entry.isArray THEN AllItems(entry.skills, ValidSkillEntry)
    ELSE AllItems(entry.subcategories, LAMBDA sub : AllItems(sub.skills, ValidSkillEntry))

\* the categorization object of skillsSchema
ValidCategorization(cat) ==
    /\ "minSkillsForSubcategory" \in DOMAIN cat =>
          (cat.minSkillsForSubcategory >= 1 /\ cat.minSkillsForSubcategory <= 10)
    /\ "categoryOverrides" \in DOMAIN cat =>
          \A role \in DOMAIN cat.categoryOverrides :
              cat.categoryOverrides[role] \in {"flat", "subcategories"}

\* skillsSchema
ValidSkills(doc) ==
    /\ "skillCategories" \in DOMAIN doc
    /\ AllItems(doc.skillCategories, ValidSkillCategory)
    /\ "categorization" \in DOMAIN doc => ValidCategorization(doc.categorization)

\* jobSchema
ValidJob(job) ==
    /\ RequiredString(job, "title", 2, 100)
    /\ RequiredString(job, "company", 2, 100)
    /\ "startDate" \in DOMAIN job /\ IsYearMonth(job.startDate)
    /\ "endDate" \in DOMAIN job =>
          /\ Len(job.endDate) = 1
          /\ (Len(job.endDate[1]) = 0 \/ IsYearMonth(job.endDate[1]))
    /\ "isCurrent" \in DOMAIN job
    /\ "location" \in DOMAIN job /\ job.location \in LocationTypeValues
    /\ RequiredString(job, "country", 2, 100)
    /\ RequiredString(job, "city", 2, 100)
    /\ OptionalString(job, "description", 0, 500, TRUE)
    /\ "achievements" \in DOMAIN job =>
          AllItems(job.achievements, LAMBDA a : Len(a) >= 1 /\ Len(a) <= 200)
    /\ "skills" \in DOMAIN job =>
          AllItems(job.skills, LAMBDA s : Len(s) >= 1 /\ Len(s) <= 50)

\* experienceSchema
ValidExperience(doc) == "jobs" \in DOMAIN doc /\ AllItems(doc.jobs, ValidJob)

\* Joi.string().uri(): a scheme, ':' and a rest
IsUri(s) == \E i \in 2..(Len(s) - 1) : CharAt(s, i) = ":"

\* Joi.string().email(): a local part, '@' and a dotted domain
IsEmail(s) ==
    \E i \in 2..(Len(s) - 1) :
        /\ CharAt(s, i) = "@"
        /\ \E j \in (i + 2)..(Len(s) - 1) : CharAt(s, j) = "."

\* projectSchema
ValidProject(project) ==
    /\ RequiredString(project, "name", 2, 100)
    /\ RequiredString(project, "description", 10, 500)
    /\ "technologies" \in DOMAIN project =>
          AllItems(project.technologies, LAMBDA x : Len(x) >= 1 /\ Len(x) <= 50)
    /\ \A key \in {"url", "github", "image"} :
          key \in DOMAIN project => (Len(project[key]) = 0 \/ IsUri(project[key]))

\* projectsSchema
ValidProjects(doc) == "projects" \in DOMAIN doc /\ AllItems(doc.projects, ValidProject)

\* contactSchema
ValidContact(doc) ==
    /\ "email" \in DOMAIN doc /\ IsEmail(doc.email)
    /\ "socialLinks" \in DOMAIN doc =>
          AllItems(doc.socialLinks,
                   LAMBDA link : /\ "platform" \in DOMAIN link /\ Len(link.platform) > 0
                                 /\ "url" \in DOMAIN link /\ IsUri(link.url))

\* the keys of schemaMap
SchemaSections == { "personalInfo", "about", "skills", "experience", "projects", "contact" }

\* schema.validate(data) reports no error
SchemaAccepts(section, doc) ==
    CASE section = "personalInfo" -> ValidPersonalInfo(doc)
      [] section = "about" -> ValidAbout(doc)
      [] section = "skills" -> ValidSkills(doc)
      [] section = "experience" -> ValidExperience(doc)
      [] section = "projects" -> ValidProjects(doc)
      [] section = "contact" -> ValidContact(doc)

\* the keys a schema declares, for the top-level object of a section
SchemaKeys(section) ==
    CASE section = "personalInfo" -> {"name", "title", "location", "bio"}
      [] section = "about" -> {"content"}
      [] section = "skills" -> {"skillCategories", "categorization"}
      [] section = "experience" -> {"jobs"}
      [] section = "projects" -> {"projects"}
      [] section = "contact" -> {"email", "phone", "socialLinks"}

JobKeys ==
    { "title", "company", "startDate", "endDate", "isCurrent", "location", "country",
      "city", "description", "achievements", "skills" }

ProjectKeys == { "name", "description", "technologies", "url", "github", "image" }

\* an object restricted to the declared keys, with the defaults of absent ones
Sanitized(object, keys, defaults) ==
    [k \in (DOMAIN object \cap keys) \cup DOMAIN defaults |->
        IF k \in DOMAIN object THEN object[k] ELSE defaults[k]]

CategorizationDefaults ==
    [useSubcategories |-> TRUE, minSkillsForSubcategory |-> 3, categoryOverrides |-> <<>>]

\* the value schema.validate returns with stripUnknown: unknown keys removed,
\* defaults filled in
SanitizedValue(section, doc) ==
    LET top == Sanitized(doc, SchemaKeys(section), <<>>) IN
    CASE section = "experience" ->
            [top EXCEPT !.jobs = MapSeq(LAMBDA job :
                Sanitized(job, JobKeys, [achievements |-> <<>>, skills |-> <<>>]), @)]
      [] section = "projects" ->
            [top EXCEPT !.projects = MapSeq(LAMBDA project :
                Sanitized(project, ProjectKeys, [technologies |-> <<>>]), @)]
      [] section = "contact" -> Sanitized(doc, SchemaKeys(section), [socialLinks |-> <<>>])
      [] section = "skills" ->
            IF "categorization" \in DOMAIN top
            THEN [top EXCEPT !.categorization =
                     Sanitized(@, DOMAIN CategorizationDefaults, CategorizationDefaults)]
            ELSE top
      [] OTHER -> top

\* validateSection(section, data): threw when schemaMap has no schema for the
\* section, else Joi's { error, value }
validateSection(section, data) ==
    IF section \notin SchemaSections
    THEN [threw |-> TRUE, error |-> FALSE, value |-> <<>>]
    ELSE IF SchemaAccepts(section, data)
    THEN [threw |-> FALSE, error |-> FALSE, value |-> SanitizedValue(section, data)]
    ELSE [threw |-> FALSE, error |-> TRUE, value |-> <<>>]

-----------------------------------------------------------------------------
(* The section store, routes/portfolio.js. The file of a section is a      *)
(* sequence of length 0 (no file) or 1; a file holds the JSON text of a    *)
(* document, modelled by the document the text stands for, or text that    *)
(* is not JSON (a write that failed after the file was truncated).         *)

ValidSectionSet == {VALID_SECTIONS[i] : i \in 1..Len(VALID_SECTIONS)}

NoFile == <<>>

\* the file fs.writeFile(path, JSON.stringify(data, null, 2)) leaves
JsonFile(data) == <<[json |-> <<data>>]>>

\* the file a rejected fs.writeFile leaves when it had opened the file
TruncatedFile == <<[json |-> <<>>]>>

IndexOf(seq, x) ==
    IF \E i \in 1..Len(seq) : seq[i] = x THEN CHOOSE i \in 1..Len(seq) : seq[i] = x ELSE 0

DigitValue(c) == IndexOf([i \in 1..Len(Digits) |-> CharAt(Digits, i)], c) - 1

Number(s, from, to) ==
    LET RECURSIVE Value(_)
        Value(i) == IF i < from THEN 0 ELSE 10 * Value(i - 1) + DigitValue(CharAt(s, i))
    IN Value(to)

\* new Date(text) for a text of the form YYYY-MM: the time value, counted in
\* months, as a sequence of length 1; a sequence of length 0 is NaN (Invalid
\* Date: a month outside 01..12, or a text that is no date)
DateValue(text) ==
    IF IsYearMonth(text) /\ Number(text, 6, 7) >= 1 /\ Number(text, 6, 7) <= 12
    THEN <<12 * Number(text, 1, 4) + Number(text, 6, 7)>>
    ELSE <<>>

\* the comparator of readSectionData; a NaN difference counts as +0 in
\* Array.prototype.sort
CompareJobs(a, b) ==
    IF a.isCurrent /\ ~b.isCurrent THEN -1
    ELSE IF ~a.isCurrent /\ b.isCurrent THEN 1
    ELSE LET dateA == DateValue(a.startDate)
             dateB == DateValue(b.startDate)
         IN IF Len(dateA) = 0 \/ Len(dateB) = 0 THEN 0 ELSE dateB[1] - dateA[1]

\* ECMAScript's "consistent comparator" on the elements of seq
ConsistentComparator(seq, Compare(_, _)) ==
    LET n == Len(seq)
        Less(i, j) == Compare(seq[i], seq[j]) < 0
        Same(i, j) == Compare(seq[i], seq[j]) = 0
        More(i, j) == Compare(seq[i], seq[j]) > 0
    IN \A i, j, k \in 1..n :
          /\ Same(i, i)
          /\ Same(i, j) => Same(j, i)
          /\ (Same(i, j) /\ Same(j, k)) => Same(i, k)
          /\ (Less(i, j) /\ Less(j, k)) => Less(i, k)
          /\ (More(i, j) /\ More(j, k)) => More(i, k)
          /\ Less(i, j) <=> More(j, i)

\* a read that keeps only the current jobs
SortedJobs_CurrentOnly(jobs) == {SelectSeq(jobs, LAMBDA job : job.isCurrent)}

\* the orders parsedData.jobs.sort(...) can leave: the stable sort when the
\* comparator is consistent, an implementation-defined order otherwise
SortedJobs(jobs) ==
    IF ConsistentComparator(jobs, CompareJobs)
    THEN {StableSort(jobs, CompareJobs)}
    ELSE {[k \in 1..Len(jobs) |-> jobs[order[k]]] : order \in Permutations(1..Len(jobs))}

\* readSectionData(section) on the files: error is the code of what it
\* throws ("" when it returns), data what it returns
readSectionData(files, section) ==
    IF Len(files[section]) = 0 THEN {[error |-> "ENOENT", data |-> <<>>]}
    ELSE IF Len(files[section][1].json) = 0 THEN {[error |-> "SyntaxError", data |-> <<>>]}
    ELSE LET parsedData == files[section][1].json[1] IN
         IF section = "experience" /\ "jobs" \in DOMAIN parsedData
         THEN {[error |-> "", data |-> [parsedData EXCEPT !.jobs = sorted]] :
                  sorted \in SortedJobs(parsedData.jobs)}
         ELSE {[error |-> "", data |-> parsedData]}

\* a write that is rejected: the section whose file cannot be written ("" for
\* none) and whether the file is left truncated
NoFailure == [section |-> "", truncates |-> FALSE]

\* writeSectionData(section, data) on the files, under a failure
writeSectionData(files, section, data, failure) ==
    IF failure.section # section THEN [files EXCEPT ![section] = JsonFile(data)]
    ELSE IF failure.truncates THEN [files EXCEPT ![section] = TruncatedFile]
    ELSE files

\* the history of completed writes after writeSectionData(section, data)
Recorded(history, section, data, failure) ==
    IF failure.section # section THEN [history EXCEPT ![section] = <<data>>]
    ELSE [history EXCEPT ![section] = <<>>]

\* a loop that writes every document or, when a write is rejected, none
WriteSections_AllOrNothing(files, sections, n, docs, failure, stops) ==
    IF \E i \in 1..n : sections[i] = failure.section /\ sections[i] \in DOMAIN docs
    THEN files
    ELSE [section \in DOMAIN files |->
             IF section \in DOMAIN docs /\ \E i \in 1..n : sections[i] = section
             THEN JsonFile(docs[section]) ELSE files[section]]

\* the writes of the loop "for (const section of sections) if (docs[section])
\* write" over the first n sections; a rejected write ends the loop when the
\* caller lets it throw (stops), and is skipped when the caller catches it
RECURSIVE WriteSections(_, _, _, _, _, _)
WriteSections(files, sections, n, docs, failure, stops) ==
    IF n = 0 THEN files
    ELSE LET before == WriteSections(files, sections, n - 1, docs, failure, stops)
             section == sections[n]
             thrown == /\ stops
                       /\ \E i \in 1..(n - 1) :
                             sections[i] = failure.section /\ sections[i] \in DOMAIN docs
         IN IF section \notin DOMAIN docs \/ thrown THEN before
            ELSE writeSectionData(before, section, docs[section], failure)

RECURSIVE RecordSections(_, _, _, _, _, _)
RecordSections(history, sections, n, docs, failure, stops) ==
    IF n = 0 THEN history
    ELSE LET before == RecordSections(history, sections, n - 1, docs, failure, stops)
             section == sections[n]
             thrown == /\ stops
                       /\ \E i \in 1..(n - 1) :
                             sections[i] = failure.section /\ sections[i] \in DOMAIN docs
         IN IF section \notin DOMAIN docs \/ thrown THEN before
            ELSE Recorded(before, section, docs[section], failure)

\* some write of the loop is rejected
WriteRejected(docs, sections, failure) ==
    \E i \in 1..Len(sections) : sections[i] = failure.section /\ sections[i] \in DOMAIN docs

\* middleware/auth.js authenticateToken: the request carries the token the
\* login issued
AdminToken == "admin-token"

authenticateToken(token) == token = AdminToken

Unauthorized == [status |-> 401, body |-> [error |-> "Access denied"]]

-----------------------------------------------------------------------------
(* The data directory after initializeDataDirectory wrote the placeholder  *)
(* data, utils/dataInitializer.js.                                         *)

FlatCategory(role, skills) ==
    [role |-> role, isArray |-> TRUE, skills |-> skills, subcategories |-> <<>>]

placeholderData ==
    [personalInfo |->
        [name |-> "Your Name", title |-> "Software Developer",
         location |-> "Your City, Country",
         bio |-> "Lorem ipsum dolor sit amet, consectetur adipiscing elit. Sed do eiusmod tempor incididunt ut labore et dolore magna aliqua. Ut enim ad minim veniam, quis nostrud exercitation ullamco laboris nisi ut aliquip ex ea commodo consequat. Duis aute irure dolor in reprehenderit in voluptate velit esse cillum dolore eu fugiat nulla pariatur. Excepteur sint occaecat cupidatat non proident, sunt in culpa qui officia deserunt mollit anim id est laborum."],
     about |->
        [content |-> "Lorem ipsum dolor sit amet, consectetur adipiscing elit. Sed do eiusmod tempor incididunt ut labore et dolore magna aliqua. Ut enim ad minim veniam, quis nostrud exercitation ullamco laboris nisi ut aliquip ex ea commodo consequat. Duis aute irure dolor in reprehenderit in voluptate velit esse cillum dolore eu fugiat nulla pariatur. Excepteur sint occaecat cupidatat non proident, sunt in culpa qui officia deserunt mollit anim id est laborum."],
     skills |->
        [skillCategories |->
            << FlatCategory("Frontend",
                   << [name |-> "React", level |-> "intermediate"],
                      [name |-> "JavaScript", level |-> "advanced"],
                      [name |-> "HTML/CSS", level |-> "advanced"] >>),
               FlatCategory("Backend",
                   << [name |-> "Node.js", level |-> "intermediate"],
                      [name |-> "Express", level |-> "intermediate"] >>),
               FlatCategory("Database",
                   << [name |-> "MongoDB", level |-> "intermediate"],
                      [name |-> "PostgreSQL", level |-> "intermediate"] >>) >>],
     experience |->
        [jobs |->
            << [title |-> "Software Developer", company |-> "Your Company",
                startDate |-> "2023-01", endDate |-> <<>>, isCurrent |-> TRUE,
                location |-> "remote", country |-> "Your Country", city |-> "Your City",
                description |-> "Description 1",
                achievements |-> <<"Achievement 1", "Achievement 2", "Achievement 3">>,
                skills |-> <<"React", "Node.js", "JavaScript", "Git">>] >>],
     projects |->
        [projects |->
            << [name |-> "Portfolio Website",
                description |-> "A personal portfolio website built with modern web technologies. Features include responsive design, dynamic content management, and contact forms.",
                image |-> "https://picsum.photos/300/200",
                github |-> "https://github.com/yourusername/portfolio",
                technologies |-> <<"React", "Node.js", "Express", "MongoDB">>],
               [name |-> "Application Name", description |-> "Description 2",
                image |-> "https://picsum.photos/300/200",
                github |-> "https://github.com/yourusername/applicationname",
                technologies |-> <<"React", "Socket.io", "Express", "PostgreSQL">>] >>],
     contact |->
        [email |-> "your.email@example.com", phone |-> "+1 (555) 123-4567",
         socialLinks |->
            << [platform |-> "github", url |-> "https://github.com/yourusername"],
               [platform |-> "linkedin",
                url |-> "https://www.linkedin.com/in/yourusername/"] >>]]

\* createPlaceholderData: one file per key of placeholderData; no other
\* section has a file
initializeDataDirectory ==
    [section \in SectionNames |->
        IF section \in DOMAIN placeholderData THEN JsonFile(placeholderData[section])
        ELSE NoFile]

-----------------------------------------------------------------------------
(* The requests of the model: small sets of bodies, files and failures.    *)

MaxRequests == 2

Tokens == { AdminToken, "" }

Job(title, startDate, isCurrent) ==
    [title |-> title, company |-> "Initech", startDate |-> startDate,
     isCurrent |-> isCurrent, location |-> "remote", country |-> "Utopia",
     city |-> "Springfield"]

JobLists ==
    << << Job("Alpha", "2020-01", FALSE), Job("Bravo", "2022-06", FALSE),
          Job("Charlie", "2021-03", TRUE) >>,
       << Job("Alpha", "2020-01", FALSE), Job("Delta", "2020-01", FALSE) >>,
       << Job("Alpha", "2020-01", FALSE), Job("Xray", "2023-13", FALSE),
          Job("Bravo", "2022-06", FALSE) >>,
       << Job("Charlie", "2021-03", TRUE), Job("Echo", "2024-02", TRUE),
          Job("Foxtrot", "2019-11", FALSE) >> >>

\* the bodies of PUT /:section
SectionUpdates ==
    << [section |-> "personalInfo", body |-> [name |-> "Ada Byron", title |-> "Engineer"]],
       [section |-> "personalInfo", body |-> [name |-> "A"]],
       [section |-> "personalInfo", body |-> [name |-> "Ada Byron", nickname |-> "ada"]],
       [section |-> "about", body |-> [content |-> "Mathematician and writer"]],
       [section |-> "experience", body |-> [jobs |-> JobLists[1]]],
       [section |-> "experience", body |-> [jobs |-> JobLists[2]]],
       [section |-> "experience", body |-> [jobs |-> JobLists[3]]],
       [section |-> "experience", body |-> [jobs |-> JobLists[4]]],
       [section |-> "experience",
        body |-> [jobs |-> << Job("Golf", "June 2020", FALSE) >>]],
       [section |-> "skills",
        body |-> [skillCategories |->
                     << FlatCategory("Languages", << [name |-> "Ada", level |-> "expert"] >>) >>,
                  categorization |-> [useSubcategories |-> FALSE]]],
       [section |-> "projects",
        body |-> [projects |-> << [name |-> "Engine",
                                   description |-> "An analytical engine",
                                   url |-> "https://example.org/engine"] >>]],
       [section |-> "contact", body |-> [email |-> "ada@example.org"]],
       [section |-> "contact", body |-> [email |-> "ada.example.org"]],
       [section |-> "education", body |-> [degrees |-> <<>>]] >>

\* the bodies of PUT /
BulkUpdates ==
    << [personalInfo |-> [name |-> "Grace Hopper"],
        about |-> [content |-> "Compilers and languages"]],
       [experience |-> [jobs |-> JobLists[1]], contact |-> [email |-> "grace@example.org"]],
       [personalInfo |-> [name |-> "Grace Hopper", rank |-> "admiral"]],
       [personalInfo |-> [name |-> "Grace Hopper"], about |-> [content |-> "short"]],
       [about |-> [content |-> "Compilers and languages"],
        education |-> [degrees |-> <<>>]] >>

WriteFailures ==
    { NoFailure }
        \cup { [section |-> section, truncates |-> truncates] :
                  section \in SectionNames, truncates \in BOOLEAN }

CsvFile(originalname, content) == [originalname |-> originalname, content |-> content]

HeaderOnlyProfile == CsvFile("Profile.csv", "full_name,headline,location,summary")

ProfileFile ==
    CsvFile("Profile.csv",
            "full_name,headline,location,summary\nAda Byron,Engineer,London,Mathematician and writer")

PositionsFile ==
    CsvFile("Positions.csv",
            "title,company,start_date,end_date,is_current\nEngineer,Initech,2020-01,2021-12,false\nLead,Globex,2022-02,,true")

SkillsFile == CsvFile("Skills.csv", "Name\nReact\nDocker\nGit")

HeaderlessSkillsFile == CsvFile("skills.csv", "React\nDocker\nLeadership")

EducationFile == CsvFile("Education.csv", "school,degree,field\nMIT,BSc,Mathematics")

\* the file lists of upload-csv and preview-csv
ImportBatches ==
    << << HeaderOnlyProfile, PositionsFile, SkillsFile, EducationFile >>,
       << ProfileFile, SkillsFile >>,
       << HeaderOnlyProfile, PositionsFile, HeaderlessSkillsFile, EducationFile >>,
       << >> >>

\* req.body.categorization: a sequence of length 0 when the body has none
CategorizationBodies ==
    << << >>,
       << [useSubcategories |-> FALSE, minSkillsForSubcategory |-> 2,
           categoryOverrides |-> <<>>] >>,
       << [useSubcategories |-> TRUE] >> >>

Passwords == { "admin123", "letmein" }

-----------------------------------------------------------------------------
(* The request handlers. A handler runs to its response in one step.       *)

Respond(request, status, body) == [request |-> request, status |-> status, body |-> body]

Served ==
    /\ requests < MaxRequests
    /\ requests' = requests + 1
    /\ UNCHANGED pipelineVars
    /\ UNCHANGED raceVars
    /\ UNCHANGED startupVars

\* router.get('/:section')
GetSection ==
    /\ Served
    /\ \E section \in SectionNames :
          LET request == [kind |-> "GET /:section", section |-> section] IN
          IF section \notin ValidSectionSet
          THEN /\ response' = Respond(request, 400, [error |-> "Invalid section"])
               /\ consoleErrors' = {}
          ELSE \E outcome \in readSectionData(store, section) :
                  /\ response' =
                        (IF outcome.error = "" THEN Respond(request, 200, outcome.data)
                         ELSE IF outcome.error = "ENOENT"
                         THEN Respond(request, 404, [error |-> "Section not found"])
                         ELSE Respond(request, 500, [error |-> "Error reading portfolio section"]))
                  /\ consoleErrors' =
                        (IF outcome.error \in {"", "ENOENT"} THEN {}
                         ELSE {"Error reading portfolio section"})
    /\ UNCHANGED <<store, preferencesFile, written>>

\* router.get('/'): a section that cannot be read is null, a sequence of
\* length 0
GetAll ==
    /\ Served
    /\ \E experience \in readSectionData(store, "experience") :
          LET outcome(section) ==
                  IF section = "experience" THEN experience
                  ELSE CHOOSE o \in readSectionData(store, section) : TRUE
          IN /\ response' =
                   Respond([kind |-> "GET /"], 200,
                           [section \in ValidSectionSet |->
                               IF outcome(section).error = "" THEN <<outcome(section).data>>
                               ELSE <<>>])
             /\ consoleErrors' =
                   {"Error reading " \o section \o " data" :
                       section \in {s \in ValidSectionSet : outcome(s).error # ""}}
    /\ UNCHANGED <<store, preferencesFile, written>>

\* router.put('/:section')
PutSection ==
    /\ Served
    /\ \E token \in Tokens, i \in 1..Len(SectionUpdates), failure \in WriteFailures :
          LET section == SectionUpdates[i].section
              body == SectionUpdates[i].body
              request == [kind |-> "PUT /:section", token |-> token, section |-> section,
                          body |-> body, failure |-> failure]
              checked == validateSection(section, body)
          IN IF ~authenticateToken(token)
             THEN /\ i = 1 /\ failure = NoFailure
                  /\ response' = Respond(request, Unauthorized.status, Unauthorized.body)
                  /\ consoleErrors' = {}
                  /\ UNCHANGED <<store, written>>
             ELSE IF section \notin ValidSectionSet
             THEN /\ failure = NoFailure
                  /\ response' = Respond(request, 400, [error |-> "Invalid section"])
                  /\ consoleErrors' = {}
                  /\ UNCHANGED <<store, written>>
             ELSE IF checked.error
             THEN /\ failure = NoFailure
                  /\ response' = Respond(request, 400, [error |-> "Validation failed"])
                  /\ consoleErrors' = {}
                  /\ UNCHANGED <<store, written>>
             ELSE /\ failure.section \in {"", section}
                  /\ store' = writeSectionData(store, section, checked.value, failure)
                  /\ written' = Recorded(written, section, checked.value, failure)
                  /\ response' =
                        (IF failure.section = section
                         THEN Respond(request, 500, [error |-> "Error updating portfolio section"])
                         ELSE Respond(request, 200,
                                      [message |-> section \o " section updated successfully"]))
                  /\ consoleErrors' =
                        (IF failure.section = section
                         THEN {"Error updating portfolio section"} ELSE {})
    /\ UNCHANGED preferencesFile

\* a bulk update that writes the sections that pass and answers 400 when
\* some section does not
PutAll_WritingValidSections ==
    /\ Served
    /\ \E i \in 1..Len(BulkUpdates) :
          LET newData == BulkUpdates[i]
              request == [kind |-> "PUT /", token |-> AdminToken, body |-> newData,
                          failure |-> NoFailure]
              rejected == {section \in DOMAIN newData :
                              \/ section \notin ValidSectionSet
                              \/ validateSection(section, newData[section]).error}
              accepted == [section \in DOMAIN newData \ rejected |-> newData[section]]
              n == Len(VALID_SECTIONS)
          IN /\ store' = WriteSections(store, VALID_SECTIONS, n, accepted, NoFailure, TRUE)
             /\ written' = RecordSections(written, VALID_SECTIONS, n, accepted, NoFailure, TRUE)
             /\ response' =
                   (IF rejected # {}
                    THEN Respond(request, 400, [error |-> "Validation failed"])
                    ELSE Respond(request, 200,
                                 [message |-> "Portfolio data updated successfully"]))
             /\ consoleErrors' = {}
    /\ UNCHANGED preferencesFile

\* router.put('/'): every section of the body is checked, then the body's own
\* documents are written in the order of VALID_SECTIONS
PutAll ==
    /\ Served
    /\ \E token \in Tokens, i \in 1..Len(BulkUpdates), failure \in WriteFailures :
          LET newData == BulkUpdates[i]
              request == [kind |-> "PUT /", token |-> token, body |-> newData,
                          failure |-> failure]
              invalidSections == DOMAIN newData \ ValidSectionSet
              validationErrors ==
                  {section \in DOMAIN newData : validateSection(section, newData[section]).error}
              n == Len(VALID_SECTIONS)
          IN IF ~authenticateToken(token)
             THEN /\ i = 1 /\ failure = NoFailure
                  /\ response' = Respond(request, Unauthorized.status, Unauthorized.body)
                  /\ consoleErrors' = {}
                  /\ UNCHANGED <<store, written>>
             ELSE IF invalidSections # {}
             THEN /\ failure = NoFailure
                  /\ response' =
                        Respond(request, 400,
                                [error |-> "Invalid section: " \o CHOOSE s \in invalidSections : TRUE])
                  /\ consoleErrors' = {}
                  /\ UNCHANGED <<store, written>>
             ELSE IF validationErrors # {}
             THEN /\ failure = NoFailure
                  /\ response' = Respond(request, 400,
                                         [error |-> "Validation failed",
                                          details |-> validationErrors])
                  /\ consoleErrors' = {}
                  /\ UNCHANGED <<store, written>>
             ELSE /\ failure.section \in {""} \cup DOMAIN newData
                  /\ store' = WriteSections(store, VALID_SECTIONS, n, newData, failure, TRUE)
                  /\ written' = RecordSections(written, VALID_SECTIONS, n, newData, failure, TRUE)
                  /\ response' =
                        (IF WriteRejected(newData, VALID_SECTIONS, failure)
                         THEN Respond(request, 500, [error |-> "Error updating portfolio data"])
                         ELSE Respond(request, 200,
                                      [message |-> "Portfolio data updated successfully"]))
                  /\ consoleErrors' =
                        (IF WriteRejected(newData, VALID_SECTIONS, failure)
                         THEN {"Error updating portfolio data"} ELSE {})
    /\ UNCHANGED preferencesFile

\* a handler that never tests for missing files
NoFilesUploaded_Never(files) == FALSE

\* !req.files || req.files.length === 0
NoFilesUploaded(files) == Len(files) = 0

\* Object.keys(portfolioData): the sections in the order transformLinkedInData
\* sets them
TransformedKeys(data) ==
    SelectSeq(<< "personalInfo", "about", "experience", "skills", "education" >>,
              LAMBDA section : section \in DOMAIN data)

\* req.body.categorization || { useSubcategories: true, ... }
CategorizationOrDefault(categorization) ==
    IF Len(categorization) = 1 THEN categorization[1] ELSE DefaultPreferences

\* what the catch of parseLinkedInCSV logs for the files
ParseErrorLog(files) ==
    {"Error parsing " \o ToLowerCase(files[i].originalname) : i \in ParseErrors(files)}

\* what the catch of saveToPortfolio logs
SaveErrorLog(docs, failure) ==
    IF WriteRejected(docs, ImportSections, failure)
    THEN {"Error updating " \o failure.section \o ".json"} ELSE {}

\* the importedData of the upload-csv response
ImportedData(data) ==
    [profile |-> IF Len(data.profile) > 0 THEN "Yes" ELSE "No",
     positions |-> Len(data.positions),
     skills |-> Len(data.skills),
     education |-> Len(data.education)]

\* parseLinkedInCSV and transformLinkedInData on every file list under every
\* categorization body, as a table that is evaluated once
ImportTable ==
    [i \in 1..Len(ImportBatches) |->
        [j \in 1..Len(CategorizationBodies) |->
            [data |-> parseLinkedInCSV(ImportBatches[i]),
             outcome |-> transformLinkedInData(parseLinkedInCSV(ImportBatches[i]),
                                               CategorizationOrDefault(CategorizationBodies[j])),
             log |-> ParseErrorLog(ImportBatches[i])]]]

\* router.post('/upload-csv'): parseLinkedInCSV, transformLinkedInData and
\* saveToPortfolio, whose rejected writes are caught and logged
UploadCsv ==
    /\ Served
    /\ \E token \in Tokens, i \in 1..Len(ImportBatches),
          j \in 1..Len(CategorizationBodies), failure \in WriteFailures :
          \E imported \in {ImportTable[i][j]} :
          LET files == ImportBatches[i]
              categorization == CategorizationBodies[j]
              request == [kind |-> "POST /upload-csv", token |-> token, files |-> files,
                          categorization |-> categorization, failure |-> failure]
              data == imported.data
              outcome == imported.outcome
              n == Len(ImportSections)
          IN IF ~authenticateToken(token)
             THEN /\ i = 1 /\ j = 1 /\ failure = NoFailure
                  /\ response' = Respond(request, Unauthorized.status, Unauthorized.body)
                  /\ consoleErrors' = {}
                  /\ UNCHANGED <<store, written>>
             ELSE IF NoFilesUploaded(files)
             THEN /\ j = 1 /\ failure = NoFailure
                  /\ response' = Respond(request, 400, [error |-> "No CSV files uploaded"])
                  /\ consoleErrors' = {}
                  /\ UNCHANGED <<store, written>>
             ELSE IF outcome.threw
             THEN /\ failure = NoFailure
                  /\ response' = Respond(request, 500, [error |-> "Failed to import CSV data"])
                  /\ consoleErrors' = imported.log \cup {"Error importing CSV data"}
                  /\ UNCHANGED <<store, written>>
             ELSE /\ failure.section \in {""} \cup DOMAIN outcome.data
                  /\ store' = WriteSections(store, ImportSections, n, outcome.data, failure, FALSE)
                  /\ written' =
                        RecordSections(written, ImportSections, n, outcome.data, failure, FALSE)
                  /\ response' =
                        Respond(request, 200,
                                [message |-> "LinkedIn CSV data imported successfully",
                                 sections |-> TransformedKeys(outcome.data),
                                 fileCount |-> Len(files),
                                 importedData |-> ImportedData(data)])
                  /\ consoleErrors' =
                        imported.log \cup SaveErrorLog(outcome.data, failure)
    /\ UNCHANGED preferencesFile

\* a preview that also saves what it transformed
PreviewCsv_Saving ==
    /\ Served
    /\ \E i \in 1..Len(ImportBatches), j \in 1..Len(CategorizationBodies) :
          \E imported \in {ImportTable[i][j]} :
          LET files == ImportBatches[i]
              outcome == imported.outcome
              n == Len(ImportSections)
          IN /\ ~NoFilesUploaded(files)
             /\ ~outcome.threw
             /\ response' =
                   Respond([kind |-> "POST /preview-csv", token |-> AdminToken,
                            files |-> files, categorization |-> CategorizationBodies[j]],
                           200,
                           [message |-> "CSV data preview",
                            portfolioData |-> outcome.data,
                            sections |-> TransformedKeys(outcome.data),
                            fileCount |-> Len(files)])
             /\ consoleErrors' = imported.log
             /\ store' = WriteSections(store, ImportSections, n, outcome.data, NoFailure, FALSE)
             /\ written' =
                   RecordSections(written, ImportSections, n, outcome.data, NoFailure, FALSE)
    /\ UNCHANGED preferencesFile

\* router.post('/preview-csv')
PreviewCsv ==
    /\ Served
    /\ \E token \in Tokens, i \in 1..Len(ImportBatches), j \in 1..Len(CategorizationBodies) :
          \E imported \in {ImportTable[i][j]} :
          LET files == ImportBatches[i]
              categorization == CategorizationBodies[j]
              request == [kind |-> "POST /preview-csv", token |-> token, files |-> files,
                          categorization |-> categorization]
              data == imported.data
              outcome == imported.outcome
          IN IF ~authenticateToken(token)
             THEN /\ i = 1 /\ j = 1
                  /\ response' = Respond(request, Unauthorized.status, Unauthorized.body)
                  /\ consoleErrors' = {}
             ELSE IF NoFilesUploaded(files)
             THEN /\ j = 1
                  /\ response' = Respond(request, 400, [error |-> "No CSV files uploaded"])
                  /\ consoleErrors' = {}
             ELSE IF outcome.threw
             THEN /\ response' = Respond(request, 500, [error |-> "Failed to preview CSV data"])
                  /\ consoleErrors' = imported.log \cup {"Error previewing CSV data"}
             ELSE /\ response' =
                        Respond(request, 200,
                                [message |-> "CSV data preview",
                                 portfolioData |-> outcome.data,
                                 sections |-> TransformedKeys(outcome.data),
                                 fileCount |-> Len(files)])
                  /\ consoleErrors' = imported.log
    /\ UNCHANGED <<store, preferencesFile, written>>

\* router.get('/configure-categorization')
GetCategorization ==
    /\ Served
    /\ \E token \in Tokens :
          LET request == [kind |-> "GET /configure-categorization", token |-> token] IN
          IF ~authenticateToken(token)
          THEN /\ response' = Respond(request, Unauthorized.status, Unauthorized.body)
               /\ consoleErrors' = {}
          ELSE IF Len(preferencesFile) = 0
          THEN /\ response' = Respond(request, 200, DefaultPreferences)
               /\ consoleErrors' = {}
          ELSE IF Len(preferencesFile[1].json) = 0
          THEN /\ response' = Respond(request, 500,
                                      [error |-> "Failed to fetch categorization preferences"])
               /\ consoleErrors' = {"Error fetching categorization preferences"}
          ELSE /\ response' = Respond(request, 200, preferencesFile[1].json[1])
               /\ consoleErrors' = {}
    /\ UNCHANGED <<store, preferencesFile, written>>

\* the validPreferences of POST /configure-categorization
ValidPreferences(categorization) ==
    [useSubcategories |->
        IF "useSubcategories" \in DOMAIN categorization
        THEN categorization.useSubcategories ELSE TRUE,
     minSkillsForSubcategory |->
        IF "minSkillsForSubcategory" \in DOMAIN categorization
        THEN categorization.minSkillsForSubcategory ELSE 3,
     categoryOverrides |->
        IF "categoryOverrides" \in DOMAIN categorization
        THEN categorization.categoryOverrides ELSE <<>>]

\* router.post('/configure-categorization'); rejected is the outcome of a
\* rejected fs.writeFile: "" (none), "kept" or "truncated"
ConfigureCategorization ==
    /\ Served
    /\ \E token \in Tokens, j \in 1..Len(CategorizationBodies),
          rejected \in {"", "kept", "truncated"} :
          LET categorization == CategorizationBodies[j]
              request == [kind |-> "POST /configure-categorization", token |-> token,
                          categorization |-> categorization, rejected |-> rejected]
          IN IF ~authenticateToken(token)
             THEN /\ j = 1 /\ rejected = ""
                  /\ response' = Respond(request, Unauthorized.status, Unauthorized.body)
                  /\ consoleErrors' = {}
                  /\ UNCHANGED preferencesFile
             ELSE IF Len(categorization) = 0
             THEN /\ rejected = ""
                  /\ response' = Respond(request, 400,
                                         [error |-> "Categorization preferences are required"])
                  /\ consoleErrors' = {}
                  /\ UNCHANGED preferencesFile
             ELSE IF rejected # ""
             THEN /\ response' = Respond(request, 500,
                                         [error |-> "Failed to configure categorization"])
                  /\ consoleErrors' = {"Error configuring categorization"}
                  /\ preferencesFile' =
                        (IF rejected = "truncated" THEN TruncatedFile ELSE preferencesFile)
             ELSE /\ response' =
                        Respond(request, 200,
                                [message |-> "Categorization preferences updated successfully",
                                 preferences |-> ValidPreferences(categorization[1])])
                  /\ consoleErrors' = {}
                  /\ preferencesFile' = JsonFile(ValidPreferences(categorization[1]))
    /\ UNCHANGED <<store, written>>

\* process.env.ADMIN_PASSWORD || 'admin123'
correctPassword == "admin123"

\* a login that issues the token for every password
Login_AnyPassword ==
    /\ Served
    /\ \E password \in Passwords :
          response' = Respond([kind |-> "POST /api/login", password |-> password],
                              200, [token |-> AdminToken])
    /\ consoleErrors' = {}
    /\ UNCHANGED <<store, preferencesFile, written>>

\* app.post('/api/login')
Login ==
    /\ Served
    /\ \E password \in Passwords :
          LET request == [kind |-> "POST /api/login", password |-> password] IN
          response' = (IF password = correctPassword
                       THEN Respond(request, 200, [token |-> AdminToken])
                       ELSE Respond(request, 401, [error |-> "Invalid password"]))
    /\ consoleErrors' = {}
    /\ UNCHANGED <<store, preferencesFile, written>>

\* app.get('/api/health')
Health ==
    /\ Served
    /\ response' = Respond([kind |-> "GET /api/health"], 200, [status |-> "ok"])
    /\ consoleErrors' = {}
    /\ UNCHANGED <<store, preferencesFile, written>>

-----------------------------------------------------------------------------
(* The server: the data directory holds the placeholder files, no          *)
(* preferences file exists and no request has been served.                 *)

Init ==
    /\ pc = "idle"
    /\ csvContent = ""
    /\ csvData = EmptyCsvData
    /\ userPreferences = DefaultPreferences
    /\ portfolioData = NoPortfolioData
    /\ store = initializeDataDirectory
    /\ preferencesFile = NoFile
    /\ written = [section \in SectionNames |-> <<>>]
    /\ response = Respond([kind |-> ""], 0, <<>>)
    /\ consoleErrors = {}
    /\ requests = 0
    /\ disk = <<>>
    /\ handlers = <<>>
    /\ NoStartup

Next ==
    \/ GetSection
    \/ GetAll
    \/ PutSection
    \/ PutAll
    \/ UploadCsv
    \/ PreviewCsv
    \/ GetCategorization
    \/ ConfigureCategorization
    \/ Login
    \/ Health

Spec == Init /\ [][Next]_vars

-----------------------------------------------------------------------------
(* Claims about the section store (Spec).                                  *)

\* the document the last request read for a section, as a sequence of length
\* 0 (the request read none) or 1
ReadOf(section) ==
    IF response.status # 200 THEN <<>>
    ELSE IF response.request.kind = "GET /:section"
    THEN (IF response.request.section = section THEN <<response.body>> ELSE <<>>)
    ELSE IF response.request.kind = "GET /" /\ section \in ValidSectionSet
    THEN response.body[section]
    ELSE <<>>

IsPermutation(a, b) ==
    /\ Len(a) = Len(b)
    /\ \E order \in Permutations(1..Len(a)) : \A k \in 1..Len(a) : b[k] = a[order[k]]

\* the document r read back is the document d that was written
RoundTrip(section, d, r) ==
    IF section = "experience" /\ "jobs" \in DOMAIN d
    THEN /\ DOMAIN r = DOMAIN d
         /\ \A key \in DOMAIN d \ {"jobs"} : r[key] = d[key]
         /\ IsPermutation(d.jobs, r.jobs)
    ELSE r = d

CurrentFirst(jobs) ==
    \A i, j \in 1..Len(jobs) : (i < j /\ jobs[j].isCurrent) => jobs[i].isCurrent

\* among jobs with the same isCurrent value whose start dates are dates, the
\* start dates do not increase
NewestFirst(jobs) ==
    \A i, j \in 1..Len(jobs) :
        (/\ i < j
         /\ jobs[i].isCurrent = jobs[j].isCurrent
         /\ Len(DateValue(jobs[i].startDate)) = 1
         /\ Len(DateValue(jobs[j].startDate)) = 1)
            => DateValue(jobs[i].startDate)[1] >= DateValue(jobs[j].startDate)[1]

\* C8: every read of the experience section returns the jobs with the
\* current jobs first and, among jobs with the same isCurrent value, with
\* start dates that do not increase; the file still holds the document as it
\* was written, in its written job order.
C8_ExperienceReadSorted ==
    (Len(ReadOf("experience")) = 1 /\ "jobs" \in DOMAIN ReadOf("experience")[1])
        => /\ CurrentFirst(ReadOf("experience")[1].jobs)
           /\ NewestFirst(ReadOf("experience")[1].jobs)
           /\ Len(written["experience"]) = 1
                 => store["experience"] = JsonFile(written["experience"][1])

\* the fields of the upload-csv result, none of which names a file or an error
ImportResultFields == { "message", "sections", "fileCount", "importedData" }

\* the import result reports a failure: it is an error response, or it has a
\* field besides the ones of the success result
ReportsFailure(result) ==
    result.status # 200 \/ DOMAIN result.body \ ImportResultFields # {}

\* the import wrote the documents of the positions, skills and education files
OtherFilesPersisted(files, categorization) ==
    LET data == parseLinkedInCSV(SelectSeq(files,
                    LAMBDA file : ~Includes(ToLowerCase(file.originalname), "profile")))
        prefs == CategorizationOrDefault(categorization)
    IN /\ store["experience"] = JsonFile(TransformExperience(data.positions))
       /\ store["education"] = JsonFile(TransformEducation(data.education))
       /\ (\A i \in 1..Len(data.skills) : SkillNameIsString(data.skills[i]))
             => store["skills"] = JsonFile(TransformSkills(data.skills, prefs))

\* an import of a profile file that has only its header line, with a
\* positions, a skills and an education file, whose writes are not rejected
HeaderOnlyProfileImport ==
    /\ response.request.kind = "POST /upload-csv"
    /\ authenticateToken(response.request.token)
    /\ response.request.files \in {ImportBatches[1], ImportBatches[3]}
    /\ response.request.failure = NoFailure

\* C9: when a batch holds a profile file with only a header line and other
\* valid files, the import result reports the parse failure of the profile
\* file, and the positions, skills and education files are still parsed,
\* transformed and persisted.
C9_ProfileFailureReported ==
    HeaderOnlyProfileImport
        => /\ ReportsFailure(response)
           /\ OtherFilesPersisted(response.request.files, response.request.categorization)

\* the document conforms to the schema of its section
Conforms(section, doc) == section \in SchemaSections /\ SchemaAccepts(section, doc)

\* C10: every document in the section store that a request wrote (a section
\* update, a bulk update or an import) passed the schema validation of its
\* section: it conforms to the schema.
C10_StoredDocumentsValidated ==
    \A section \in SectionNames :
        (Len(written[section]) = 1 /\ store[section] = JsonFile(written[section][1]))
            => Conforms(section, written[section][1])

\* every field of the document, and of its nested objects, is declared by the
\* schema of the section
DeclaredFieldsOnly(section, doc) ==
    /\ section \in SchemaSections
    /\ DOMAIN doc \subseteq SchemaKeys(section)
    /\ (section = "experience" /\ "jobs" \in DOMAIN doc)
          => AllItems(doc.jobs, LAMBDA job : DOMAIN job \subseteq JobKeys)
    /\ (section = "projects" /\ "projects" \in DOMAIN doc)
          => AllItems(doc.projects, LAMBDA project : DOMAIN project \subseteq ProjectKeys)
    /\ (section = "contact" /\ "socialLinks" \in DOMAIN doc)
          => AllItems(doc.socialLinks, LAMBDA link : DOMAIN link \subseteq {"platform", "url"})
    /\ (section = "skills" /\ "categorization" \in DOMAIN doc)
          => DOMAIN doc.categorization \subseteq DOMAIN CategorizationDefaults

\* the sections a successful update request names
UpdatedSections(request) ==
    IF request.kind = "PUT /:section" THEN {request.section}
    ELSE IF request.kind = "PUT /" THEN DOMAIN request.body
    ELSE {}

\* the last request was an update that was answered with success
SuccessfulUpdate ==
    response.request.kind \in {"PUT /:section", "PUT /"} /\ response.status = 200

\* C11: after a successful section update, through PUT /:section or through
\* PUT /, the file of every section the request names holds a document with
\* no field that the schema of the section does not declare.
C11_UnknownFieldsStripped ==
    SuccessfulUpdate
        => \A section \in UpdatedSections(response.request) :
              /\ Len(store[section]) = 1 /\ Len(store[section][1].json) = 1
              /\ DeclaredFieldsOnly(section, store[section][1].json[1])

\* the stripping holds on the single-section path
C11_SingleSectionStripped ==
    (SuccessfulUpdate /\ response.request.kind = "PUT /:section")
        => DeclaredFieldsOnly(response.request.section,
                              store[response.request.section][1].json[1])

\* a single-section update whose body had an unknown field was stored
\* without it
C11_SingleSectionWitness ==
    /\ SuccessfulUpdate /\ response.request.kind = "PUT /:section"
    /\ ~DeclaredFieldsOnly(response.request.section, response.request.body)
    /\ DeclaredFieldsOnly(response.request.section,
                          store[response.request.section][1].json[1])

\* the last request was a read of one section
SectionRead == response.request.kind = "GET /:section"

\* the read of the section returned the document a request stored for it
ReturnsStored(section) ==
    /\ response.status = 200
    /\ RoundTrip(section, written[section][1], response.body)

\* C12: for each of the seven section names, a read of the section returns
\* the stored document whenever an update or an import has written one, and
\* answers 404 (not found) only when the section has no file; an education
\* document the import stored can be read back.
C12_StoredSectionsReadable ==
    SectionRead
        => LET section == response.request.section IN
           /\ (Len(written[section]) = 1 /\ store[section] = JsonFile(written[section][1]))
                 => ReturnsStored(section)
           /\ response.status = 404 => store[section] = NoFile

\* the last request was an import that was answered with the success message
SuccessfulImport ==
    response.request.kind = "POST /upload-csv" /\ response.status = 200

\* the preferences the import of the request used: the body's categorization
\* or the defaults, as given or with the omitted fields defaulted
PreferencesUsed(request) ==
    { CategorizationOrDefault(request.categorization),
      ValidPreferences(CategorizationOrDefault(request.categorization)) }

\* C13: after a successful upload-csv import the preferences file exists
\* and holds the categorization preferences the import used.
C13_ImportPersistsPreferences ==
    SuccessfulImport
        => /\ Len(preferencesFile) = 1 /\ Len(preferencesFile[1].json) = 1
           /\ preferencesFile[1].json[1] \in PreferencesUsed(response.request)

-----------------------------------------------------------------------------
(* Claims about preferences that omit a field (SpecCategorize).            *)

\* C14: the transformer run on preferences that omit a field emits the same
\* skill categories as the run on the same preferences with the omitted
\* fields set to their defaults (useSubcategories = true,
\* minSkillsForSubcategory = 3, categoryOverrides = {}); with only
\* useSubcategories = true given, a role with 3 or more skills and no
\* override is emitted nested.
C14_OmittedFieldsDefaulted ==
    Transformed
        => EmittedCategories(portfolioData)
              = EmittedCategories(transformLinkedInData(csvData,
                                      ValidPreferences(userPreferences)))

-----------------------------------------------------------------------------
(* Claims about rejected writes and missing files (Spec).                  *)

\* the last request was an import one of whose section writes was rejected
ImportWriteFailed ==
    /\ response.request.kind = "POST /upload-csv"
    /\ response.request.failure.section # ""
    /\ ("Error updating " \o response.request.failure.section \o ".json") \in consoleErrors

\* the response is a structured error: an error status and an error message
StructuredError(result) == result.status >= 400 /\ "error" \in DOMAIN result.body

\* C15: when the write of a section is rejected during an upload-csv import,
\* the response of the import is a structured error and not the success
\* message.
C15_ImportWriteFailureReported ==
    ImportWriteFailed
        => /\ StructuredError(response)
           /\ "message" \notin DOMAIN response.body

\* the documents a bulk update or an import hands to its write loop, by
\* section
RequestDocuments(request) ==
    IF request.kind = "PUT /" THEN request.body
    ELSE ImportTable[IndexOf(ImportBatches, request.files)]
                    [IndexOf(CategorizationBodies, request.categorization)].outcome.data

\* the order in which the request writes its sections
WriteOrder(request) == IF request.kind = "PUT /" THEN VALID_SECTIONS ELSE ImportSections

\* the request is a bulk update or an import one of whose writes was rejected
MultiWriteRejected(request) ==
    /\ request.kind \in {"PUT /", "POST /upload-csv"}
    /\ request.failure.section # ""

\* C16: when a write of a bulk update or of an import is rejected, every
\* section of the request that was written before the rejected one holds
\* its new document after the request, and the file of every section the
\* request does not name is as it was before the request.
C16_NoRollback ==
    [][MultiWriteRejected(response'.request)
          => LET request == response'.request
                 docs == RequestDocuments(request)
                 order == WriteOrder(request)
                 failed == IndexOf(order, request.failure.section)
             IN /\ \A k \in 1..(failed - 1) :
                      order[k] \in DOMAIN docs => store'[order[k]] = JsonFile(docs[order[k]])
                /\ \A section \in SectionNames \ DOMAIN docs :
                      store'[section] = store[section]]_vars

\* an import whose write of experience was rejected after it wrote skills,
\* served after a bulk update whose write of about was rejected after it
\* wrote personalInfo: both earlier documents are in the store, and the
\* projects file, which neither request names, is the initial one
C16_Witness ==
    /\ MultiWriteRejected(response.request)
    /\ response.request.kind = "POST /upload-csv"
    /\ response.request.failure.section = "experience"
    /\ store["skills"] = JsonFile(RequestDocuments(response.request)["skills"])
    /\ store["personalInfo"] = JsonFile(BulkUpdates[1]["personalInfo"])
    /\ store["about"] # JsonFile(BulkUpdates[1]["about"])
    /\ store["projects"] = initializeDataDirectory["projects"]

\* the request is an authenticated import or preview that carries no file
WithoutFiles(request) ==
    /\ request.kind \in {"POST /upload-csv", "POST /preview-csv"}
    /\ authenticateToken(request.token)
    /\ Len(request.files) = 0

\* C17: an import or preview request that reaches its handler with no
\* uploaded file is answered with status 400 and the error 'No CSV files
\* uploaded', nothing is parsed or logged, and the files of all sections
\* and the preferences file are the same before and after the request.
C17_NoFilesRejected ==
    [][WithoutFiles(response'.request)
          => /\ response'.status = 400
             /\ response'.body = [error |-> "No CSV files uploaded"]
             /\ consoleErrors' = {}
             /\ store' = store
             /\ preferencesFile' = preferencesFile]_vars

\* an import without files was rejected after a request had stored
\* preferences: the preferences file is still there
C17_Witness ==
    /\ WithoutFiles(response.request)
    /\ response.request.kind = "POST /upload-csv"
    /\ response.status = 400
    /\ Len(preferencesFile) = 1

-----------------------------------------------------------------------------
(* Concurrent updates (SpecRace). The handlers of routes/portfolio.js are  *)
(* async functions: the part of a handler up to its first await runs in    *)
(* one step, and each operation fs.writeFile awaits (open the file for     *)
(* writing, write the text, close) is a step of its own that other         *)
(* requests' steps can interleave with. A file is its text; a sequence of  *)
(* length 0 is a file that does not exist.                                 *)

NumHandlers == 2

\* the sections whose documents have only string properties
RaceSections == { "personalInfo", "about" }

\* the order of the properties of a document of the section
PropertyOrder(section) ==
    IF section = "personalInfo" THEN << "name", "title", "location", "bio" >>
    ELSE << "content" >>

Quoted(s) == "\"" \o s \o "\""

RECURSIVE JoinMembers(_)
JoinMembers(members) ==
    IF Len(members) = 0 THEN ""
    ELSE IF Len(members) = 1 THEN members[1]
    ELSE members[1] \o ",\n" \o JoinMembers(Tail(members))

\* JSON.stringify(data, null, 2) for an object of string properties
JSONStringify(section, data) ==
    LET present == SelectSeq(PropertyOrder(section), LAMBDA key : key \in DOMAIN data)
        members == [i \in 1..Len(present) |->
                       "  " \o Quoted(present[i]) \o ": " \o Quoted(data[present[i]])]
    IN IF Len(present) = 0 THEN "{}" ELSE "{\n" \o JoinMembers(members) \o "\n}"

\* fs.writeFile opens the path with flag 'w': the file is created, or
\* truncated to length 0
OpenForWrite(files, section) == [files EXCEPT ![section] = <<"">>]

\* write(fd, data) at the position of the file descriptor: the text replaces
\* what the file holds from that position on, up to its own length
WriteAt(content, position, data) ==
    SubSeq(content, 1, position) \o data
        \o SubSeq(content, position + Len(data) + 1, Len(content))

\* the data directory as text files
InitialDisk ==
    [section \in RaceSections |-> <<JSONStringify(section, placeholderData[section])>>]

\* the requests that run concurrently
RaceRequests ==
    << [kind |-> "PUT /:section", token |-> AdminToken, section |-> "personalInfo",
        body |-> [name |-> "Ada Byron", title |-> "Engineer"]],
       [kind |-> "PUT /:section", token |-> AdminToken, section |-> "personalInfo",
        body |-> [name |-> "Grace Hopper"]],
       [kind |-> "PUT /:section", token |-> AdminToken, section |-> "personalInfo",
        body |-> [name |-> "A"]],
       [kind |-> "PUT /:section", token |-> AdminToken, section |-> "about",
        body |-> [content |-> "Mathematician and writer"]],
       [kind |-> "PUT /", token |-> AdminToken,
        body |-> [personalInfo |-> [name |-> "Alan Turing"],
                  about |-> [content |-> "Computability and machines, with proofs"]]],
       [kind |-> "PUT /", token |-> AdminToken,
        body |-> [personalInfo |-> [name |-> "Kurt Goedel", title |-> "Logician"],
                  about |-> [content |-> "Incompleteness"]]],
       [kind |-> "PUT /", token |-> AdminToken,
        body |-> [about |-> [content |-> "Compilers and languages"]]],
       [kind |-> "POST /upload-csv", token |-> AdminToken, files |-> << ProfileFile >>,
        categorization |-> << >>] >>

\* a request as it arrives: nothing to write yet, no response yet (status 0)
Arrived(request) ==
    [request |-> request, pc |-> "received", todo |-> <<>>, position |-> 0,
     status |-> 0, finished |-> [section \in RaceSections |-> <<>>]]

\* the number of writes that have completed
CompletedWrites ==
    Cardinality({<<p, section>> \in (DOMAIN handlers) \X RaceSections :
                    Len(handlers[p].finished[section]) = 1})

\* what upload-csv transforms the files of each request to, evaluated once
RaceImports ==
    [i \in {k \in 1..Len(RaceRequests) : RaceRequests[k].kind = "POST /upload-csv"} |->
        transformLinkedInData(parseLinkedInCSV(RaceRequests[i].files),
                              CategorizationOrDefault(RaceRequests[i].categorization))]

RaceImport(request) == RaceImports[IndexOf(RaceRequests, request)]

\* the loop "for (const section of order) if (docs[section]) write": the
\* texts written, in order
WritesOf(docs, order) ==
    LET sections == SelectSeq(order, LAMBDA s : s \in DOMAIN docs)
    IN [i \in 1..Len(sections) |->
           [section |-> sections[i],
            text |-> JSONStringify(sections[i], docs[sections[i]])]]

\* the writes a request queues: the sanitized value for PUT /:section, the
\* request's own documents in the order of VALID_SECTIONS for PUT /, the
\* transformed documents in the order of saveToPortfolio for upload-csv
QueuedWrites(request) ==
    IF request.kind = "PUT /:section"
    THEN << [section |-> request.section,
             text |-> JSONStringify(request.section,
                                    validateSection(request.section, request.body).value)] >>
    ELSE IF request.kind = "PUT /" THEN WritesOf(request.body, VALID_SECTIONS)
    ELSE WritesOf(RaceImport(request).data, ImportSections)

\* the request is rejected before any write: its status, or 0
RejectedBeforeWrite(request) ==
    IF ~authenticateToken(request.token) THEN Unauthorized.status
    ELSE IF request.kind = "PUT /:section"
    THEN (IF request.section \notin ValidSectionSet THEN 400
          ELSE IF validateSection(request.section, request.body).error THEN 400
          ELSE 0)
    ELSE IF request.kind = "POST /upload-csv"
    THEN (IF NoFilesUploaded(request.files) THEN 400
          ELSE IF RaceImport(request).threw THEN 500
          ELSE 0)
    ELSE IF DOMAIN request.body \ ValidSectionSet # {} THEN 400
    ELSE IF \E section \in DOMAIN request.body :
                validateSection(section, request.body[section]).error THEN 400
    ELSE 0

\* the handler after its synchronous part: it has responded, or it awaits
\* the first of its writes
Received(handler, rejected, queued) ==
    IF rejected # 0 THEN [handler EXCEPT !.pc = "done", !.status = rejected]
    ELSE IF Len(queued) = 0 THEN [handler EXCEPT !.pc = "done", !.status = 200]
    ELSE [handler EXCEPT !.pc = "open", !.todo = queued]

\* router.put('/:section'), router.put('/') and router.post('/upload-csv') up
\* to the first await of a write
ReceiveBy(p) ==
    /\ handlers[p].pc = "received"
    /\ handlers' =
          [handlers EXCEPT ![p] =
              Received(@, RejectedBeforeWrite(handlers[p].request),
                       QueuedWrites(handlers[p].request))]
    /\ UNCHANGED disk

\* writeSectionData: fs.writeFile opens the file of the section
OpenFileBy(p) ==
    /\ handlers[p].pc = "open"
    /\ disk' = OpenForWrite(disk, handlers[p].todo[1].section)
    /\ handlers' = [handlers EXCEPT ![p] = [@ EXCEPT !.pc = "write", !.position = 0]]

\* writeSectionData: fs.writeFile writes the text through its descriptor
WriteFileBy(p) ==
    /\ handlers[p].pc = "write"
    /\ LET write == handlers[p].todo[1] IN
       /\ disk' = [disk EXCEPT ![write.section] =
                      <<WriteAt(@[1], handlers[p].position, write.text)>>]
       /\ handlers' =
             [handlers EXCEPT ![p] =
                 [@ EXCEPT !.pc = "close",
                           !.position = @ + Len(write.text),
                           !.finished[write.section] =
                               <<[order |-> CompletedWrites + 1, text |-> write.text]>>]]

\* writeSectionData returns: the next section of PUT / or of saveToPortfolio
\* is written, or the handler responds
CloseFileBy(p) ==
    /\ handlers[p].pc = "close"
    /\ handlers' =
          [handlers EXCEPT ![p] =
              IF Len(@.todo) > 1 THEN [@ EXCEPT !.pc = "open", !.todo = Tail(@)]
              ELSE [@ EXCEPT !.pc = "done", !.todo = <<>>, !.status = 200]]
    /\ UNCHANGED disk

InitRace ==
    /\ pc = "idle"
    /\ csvContent = ""
    /\ csvData = EmptyCsvData
    /\ userPreferences = DefaultPreferences
    /\ portfolioData = NoPortfolioData
    /\ store = <<>>
    /\ preferencesFile = <<>>
    /\ written = <<>>
    /\ response = <<>>
    /\ consoleErrors = {}
    /\ requests = 0
    /\ disk = InitialDisk
    /\ handlers \in { [p \in 1..NumHandlers |-> Arrived(RaceRequests[choice[p]])] :
                         choice \in [1..NumHandlers -> 1..Len(RaceRequests)] }
    /\ NoStartup

\* the steps of the concurrent requests touch the text files alone
Receive ==
    /\ \E p \in DOMAIN handlers : ReceiveBy(p)
    /\ UNCHANGED <<pipelineVars, storeVars, startupVars>>

OpenFile ==
    /\ \E p \in DOMAIN handlers : OpenFileBy(p)
    /\ UNCHANGED <<pipelineVars, storeVars, startupVars>>

WriteFile ==
    /\ \E p \in DOMAIN handlers : WriteFileBy(p)
    /\ UNCHANGED <<pipelineVars, storeVars, startupVars>>

CloseFile ==
    /\ \E p \in DOMAIN handlers : CloseFileBy(p)
    /\ UNCHANGED <<pipelineVars, storeVars, startupVars>>

NextRace == Receive \/ OpenFile \/ WriteFile \/ CloseFile

SpecRace == InitRace /\ [][NextRace]_vars

-----------------------------------------------------------------------------
(* Claims about concurrent updates (SpecRace).                             *)

AllResponded == \A p \in DOMAIN handlers : handlers[p].pc = "done"

\* both requests completed a write of the section, and p's write completed
\* after q's
WroteLast(p, q, section) ==
    /\ Len(handlers[p].finished[section]) = 1
    /\ Len(handlers[q].finished[section]) = 1
    /\ handlers[p].finished[section][1].order > handlers[q].finished[section][1].order

\* C18: when two requests have written the same section concurrently and
\* both have completed, the file of the section holds, in whole, the text of
\* the write that completed last; it is never a mixture of the two texts.
C18_LastWriteWins ==
    AllResponded
        => \A p, q \in DOMAIN handlers : \A section \in RaceSections :
              WroteLast(p, q, section)
                  => disk[section] = <<handlers[p].finished[section][1].text>>

-----------------------------------------------------------------------------
(* The transformer run twice on the same parsed records and preferences,   *)
(* with other requests served before and between the two runs             *)
(* (SpecRerun).                                                            *)

\* a second call transformLinkedInData(csvData, categorization) on the inputs
\* of the first
TransformAgain ==
    /\ pc = "done"
    /\ portfolioData' = transformLinkedInData(csvData, userPreferences)
    /\ pc' = "rerun"
    /\ UNCHANGED <<csvContent, csvData, userPreferences>>
    /\ UNCHANGED storeVars
    /\ UNCHANGED raceVars
    /\ UNCHANGED startupVars

InitRerun ==
    /\ pc = "parsed"
    /\ csvContent = ""
    /\ csvData \in {parseLinkedInCSV(ImportBatches[i]) : i \in 1..Len(ImportBatches)}
    /\ userPreferences \in {CategorizationOrDefault(CategorizationBodies[j]) :
                               j \in 1..Len(CategorizationBodies)}
    /\ portfolioData = NoPortfolioData
    /\ store = initializeDataDirectory
    /\ preferencesFile = NoFile
    /\ written = [section \in SectionNames |-> <<>>]
    /\ response = Respond([kind |-> ""], 0, <<>>)
    /\ consoleErrors = {}
    /\ requests = 0
    /\ disk = <<>>
    /\ handlers = <<>>
    /\ NoStartup

\* the requests served before the first run and between the two runs
ConfigureBeforeRerun == pc # "rerun" /\ ConfigureCategorization

UpdateBeforeRerun == pc # "rerun" /\ PutAll

NextRerun ==
    \/ TransformCsv
    \/ TransformAgain
    \/ ConfigureBeforeRerun
    \/ UpdateBeforeRerun

SpecRerun == InitRerun /\ [][NextRerun]_vars

-----------------------------------------------------------------------------
(* Claims about the order of the emitted roles (SpecCategorize).           *)

PreferredOrder ==
    << "Frontend Development", "Backend Development", "Data & Analytics",
       "DevOps & Infrastructure", "Tools & Platforms", "Other" >>

\* the place of a role in the preferred order, 0 for an unrecognized role
PreferredPlace(role) == IndexOf(PreferredOrder, role)

\* C20: the roles of the emitted skillCategories are in the preferred order
\* Frontend Development, Backend Development, Data & Analytics, DevOps &
\* Infrastructure, Tools & Platforms, Other, each at most once; no
\* unrecognized role precedes a recognized one; and every emitted role has
\* at least one input skill assigned to it and emits at least one skill.
C20_RolesInPreferredOrder ==
    Transformed =>
        LET emitted == EmittedCategories(portfolioData)
            assigned == AssignedRoles(csvData.skills)
        IN /\ \A i, j \in 1..Len(emitted) :
                 i < j =>
                    LET a == PreferredPlace(emitted[i].role)
                        b == PreferredPlace(emitted[j].role)
                    IN /\ (a > 0 /\ b > 0) => a < b
                       /\ ~(a = 0 /\ b > 0)
                       /\ emitted[i].role # emitted[j].role
           /\ \A i \in 1..Len(emitted) :
                 /\ RoleCount(assigned, emitted[i].role) > 0
                 /\ Len(EmittedSkills(emitted[i])) > 0

\* skills whose first is a Backend Development skill, followed by a Frontend
\* Development and a Tools & Platforms skill, are emitted with Frontend
\* Development first
C20_Witness ==
    /\ Transformed
    /\ Len(csvData.skills) > 0
    /\ AssignedRoles(csvData.skills)[1] = "Backend Development"
    /\ Len(EmittedCategories(portfolioData)) = 3
    /\ EmittedCategories(portfolioData)[1].role = "Frontend Development"
    /\ EmittedCategories(portfolioData)[2].role = "Backend Development"
    /\ EmittedCategories(portfolioData)[3].role = "Tools & Platforms"

-----------------------------------------------------------------------------
(* Claims about the keyword matcher (SpecCategorize).                      *)

\* the (role, subcategory) pairs with their keyword lists, in role-declaration
\* order then subcategory-declaration order, from role r on
RECURSIVE DeclaredPairsFrom(_)
DeclaredPairsFrom(r) ==
    IF r > Len(roleCategories) THEN <<>>
    ELSE [s \in 1..Len(roleCategories[r].subcategories) |->
             [role |-> roleCategories[r].role,
              subcategory |-> roleCategories[r].subcategories[s].subcategory,
              keywords |-> roleCategories[r].subcategories[s].skills]]
         \o DeclaredPairsFrom(r + 1)

DeclaredPairs == DeclaredPairsFrom(1)

\* the words of a keyword joined by a separator
RECURSIVE JoinWords(_, _)
JoinWords(words, sep) ==
    IF Len(words) = 0 THEN ""
    ELSE IF Len(words) = 1 THEN words[1]
    ELSE words[1] \o sep \o JoinWords(Tail(words), sep)

\* the keyword verbatim or with its space removed or replaced by - . _
KeywordContained(lowerName, keyword) ==
    \E sep \in {" ", "", "-", ".", "_"} :
        Includes(lowerName, JoinWords(Split(keyword, " "), sep))

\* the declared pairs that have a keyword contained in the lower-cased name
PairsContaining(skillName) ==
    {k \in 1..Len(DeclaredPairs) :
        \E w \in 1..Len(DeclaredPairs[k].keywords) :
            KeywordContained(ToLowerCase(skillName), DeclaredPairs[k].keywords[w])}

PoolNames == UNION {{pool[i] : i \in 1..Len(pool)} : pool \in SkillPools}

\* PairsContaining on the skill names of the inputs, evaluated once
PoolPairs == [name \in PoolNames |-> PairsContaining(name)]

\* the first declared pair containing a keyword of the name, Other / Other
\* when there is none
FirstDeclaredPair(skillName) ==
    LET hits == IF skillName \in PoolNames THEN PoolPairs[skillName]
                ELSE PairsContaining(skillName)
    IN IF hits = {} THEN [role |-> "Other", subcategory |-> "Other"]
       ELSE LET first == CHOOSE k \in hits : \A h \in hits : k <= h
            IN [role |-> DeclaredPairs[first].role,
                subcategory |-> DeclaredPairs[first].subcategory]

\* the entry is among the skills emitted for the role; when the role is
\* emitted with subcategories, under the given subcategory
EmittedUnder(outcome, role, subcategory, entry) ==
    /\ Len(EmittedRole(outcome, role)) = 1
    /\ LET emitted == EmittedRole(outcome, role)[1] IN
       IF emitted.isArray
       THEN \E k \in 1..Len(emitted.skills) : emitted.skills[k] = entry
       ELSE \E s \in 1..Len(emitted.subcategories) :
               /\ emitted.subcategories[s].subcategory = subcategory
               /\ \E k \in 1..Len(emitted.subcategories[s].skills) :
                     emitted.subcategories[s].skills[k] = entry

\* C21: every input skill is assigned the first (role, subcategory) pair, in
\* role-declaration order then subcategory-declaration order, that has a
\* keyword contained in the lower-cased skill name (verbatim or with its space
\* removed or replaced by '-', '.' or '_'), and Other / Other when no pair has
\* one; the transformer emits the skill under that role and, where the role
\* is emitted with subcategories, under that subcategory.
C21_FirstMatchWins ==
    Transformed =>
        \A i \in 1..Len(csvData.skills) :
            LET name == SkillName(csvData.skills[i])
                pair == FirstDeclaredPair(name)
                assigned == Assignment(name)
            IN /\ assigned.role = pair.role
               /\ (IF Len(assigned.subcategory) > 0
                   THEN assigned.subcategory[1] ELSE "Other") = pair.subcategory
               /\ EmittedUnder(portfolioData, pair.role, pair.subcategory,
                               [name |-> name, level |-> SkillLevel(csvData.skills[i])])

\* a transform whose input has a skill with keywords of two roles
\* (JavaScript: javascript of Frontend Development, java of Backend
\* Development), a skill matching a keyword of role Other, and a skill with
\* no keyword at all, and which emits a role with subcategories
C21_Witness ==
    /\ Transformed
    /\ \E i \in 1..Len(csvData.skills) :
          \E k, h \in PairsContaining(SkillName(csvData.skills[i])) :
              DeclaredPairs[k].role # DeclaredPairs[h].role
    /\ \E i \in 1..Len(csvData.skills) :
          /\ PairsContaining(SkillName(csvData.skills[i])) # {}
          /\ FirstDeclaredPair(SkillName(csvData.skills[i])).role = "Other"
    /\ \E i \in 1..Len(csvData.skills) :
          PairsContaining(SkillName(csvData.skills[i])) = {}
    /\ \E e \in 1..Len(EmittedCategories(portfolioData)) :
          ~EmittedCategories(portfolioData)[e].isArray

-----------------------------------------------------------------------------
(* Claims about the admin-token gate (Spec).                               *)

\* the kinds of request that write section documents or the preferences file
WritingRequests ==
    { "PUT /:section", "PUT /", "POST /upload-csv", "POST /configure-categorization" }

\* the kinds of request that only read
ReadingRequests ==
    { "GET /:section", "GET /", "GET /configure-categorization", "POST /preview-csv",
      "GET /api/health", "POST /api/login" }

ConfiguredAdminPassword == "admin123"

\* C22: the section files and the preferences file change only in a step
\* that serves an update, import or configure request carrying the admin
\* token; a login is answered with the token only for the configured admin
\* password; read, health and login requests and every request answered 401
\* leave all stored documents unchanged.
C22_StoreChangesOnlyWithAdminToken ==
    [][ /\ (store' # store \/ preferencesFile' # preferencesFile) =>
              /\ response'.request.kind \in WritingRequests
              /\ response'.request.token = AdminToken
              /\ response'.status # 401
        /\ (response'.request.kind = "POST /api/login" /\ response'.status = 200) =>
              response'.request.password = ConfiguredAdminPassword
        /\ (response'.request.kind \in ReadingRequests \/ response'.status = 401) =>
              (store' = store /\ preferencesFile' = preferencesFile)
      ]_vars

\* an update request without the admin token was answered 401 after an
\* earlier request with the token had changed a section file
C22_Witness ==
    /\ response.request.kind \in {"PUT /:section", "PUT /", "POST /upload-csv"}
    /\ response.request.token # AdminToken
    /\ response.status = 401
    /\ store # initializeDataDirectory

-----------------------------------------------------------------------------
(* The field mapping as a function of one parsed record (SpecMapping).     *)

\* the headers transformLinkedInData looks up, grouped by the field they feed
PositionHeaders ==
    { {"title", "job_title"}, {"company", "organization"}, {"start_date", "from"},
      {"end_date", "to"}, {"is_current", "current"}, {"location"}, {"country"},
      {"city"}, {"description"}, {"achievements"}, {"skills"} }

ProfileHeaders ==
    { {"full_name", "name"}, {"headline", "title"}, {"location"}, {"summary"} }

EducationHeaders ==
    { {"degree", "degree_name"}, {"school", "institution"}, {"field", "major"},
      {"start_date", "from"}, {"end_date", "to"}, {"description"} }

\* the values a column of the header can hold in a parsed row; '' is the value
\* of a column the row leaves empty
HeaderValues(header) ==
    CASE header \in {"is_current", "current"} -> {"", "true", "false"}
      [] header = "achievements" -> {"", "Shipped v2;Cut latency"}
      [] header = "skills" -> {"", "Go , Rust"}
      [] OTHER -> {"", header \o "#"}

\* the parsed rows whose headers are a subset of the given ones
RowsOver(headers) ==
    UNION { {row \in [present -> UNION {HeaderValues(h) : h \in headers}] :
                \A h \in present : row[h] \in HeaderValues(h)} :
            present \in SUBSET headers }

\* the rows of the model: every row over the headers of one field, and the
\* row with every header filled
RecordInputs(groups) ==
    UNION {RowsOver(group) : group \in groups}
        \cup { [h \in UNION groups |->
                   CHOOSE v \in HeaderValues(h) : v # "" /\ v # "false"] }

InitMapping ==
    /\ pc = "parsed"
    /\ csvContent = ""
    /\ csvData \in
          { [EmptyCsvData EXCEPT !.positions = <<row>>] : row \in RecordInputs(PositionHeaders) }
            \cup { [EmptyCsvData EXCEPT !.profile = <<row>>] :
                      row \in RecordInputs(ProfileHeaders) }
            \cup { [EmptyCsvData EXCEPT !.education = <<row>>] :
                      row \in RecordInputs(EducationHeaders) }
    /\ userPreferences = DefaultPreferences
    /\ portfolioData = NoPortfolioData
    /\ NoRequests

NextMapping == TransformCsv

SpecMapping == InitMapping /\ [][NextMapping]_vars

-----------------------------------------------------------------------------
(* Claims about the field mapping (SpecMapping).                           *)

\* the value of the first alias, in alias order, whose value in the record is
\* a non-empty string; the default when there is none
FirstNonEmpty(record, aliases, default) ==
    LET filled == {i \in 1..Len(aliases) :
                      aliases[i] \in DOMAIN record /\ record[aliases[i]] # ""}
    IN IF filled = {} THEN default
       ELSE record[aliases[CHOOSE i \in filled : \A j \in filled : i <= j]]

Field(field, aliases, default) ==
    [field |-> field, aliases |-> aliases, default |-> default]

\* the string-valued fields with their aliases in order and their defaults
PositionStringFields ==
    { Field("title", <<"title", "job_title">>, "Software Developer"),
      Field("company", <<"company", "organization">>, "Company Name"),
      Field("startDate", <<"start_date", "from">>, "2023-01"),
      Field("location", <<"location">>, "remote"),
      Field("country", <<"country">>, "Your Country"),
      Field("city", <<"city">>, "Your City"),
      Field("description", <<"description">>, "Develop and maintain web applications...") }

PersonalInfoFields ==
    { Field("name", <<"full_name", "name">>, "Your Name"),
      Field("title", <<"headline", "title">>, "Software Developer"),
      Field("location", <<"location">>, "Your Location"),
      Field("bio", <<"summary">>, "A passionate software developer...") }

AboutFields ==
    { Field("content", <<"summary">>, "I am a passionate software developer...") }

DegreeFields ==
    { Field("degree", <<"degree", "degree_name">>, "Bachelor's Degree"),
      Field("school", <<"school", "institution">>, "University Name"),
      Field("field", <<"field", "major">>, "Computer Science"),
      Field("startDate", <<"start_date", "from">>, "2019-09"),
      Field("endDate", <<"end_date", "to">>, "2023-05"),
      Field("description", <<"description">>, "Relevant coursework and projects...") }

\* every field of the set has, in the document, the first non-empty alias
\* value of the record or its default
MappedFrom(document, record, fields) ==
    \A f \in fields : document[f.field] = FirstNonEmpty(record, f.aliases, f.default)

\* the string-valued fields of every document built from the parsed records
StringFieldsMapped ==
    /\ \A i \in 1..Len(csvData.positions) :
          MappedFrom(portfolioData.data["experience"].jobs[i], csvData.positions[i],
                     PositionStringFields)
    /\ \A i \in 1..Len(csvData.profile) :
          /\ MappedFrom(portfolioData.data["personalInfo"], csvData.profile[i],
                        PersonalInfoFields)
          /\ MappedFrom(portfolioData.data["about"], csvData.profile[i], AboutFields)
    /\ \A i \in 1..Len(csvData.education) :
          MappedFrom(portfolioData.data["education"].degrees[i], csvData.education[i],
                     DegreeFields)

\* a job's endDate: the first non-empty of end_date and to, null when neither
EndDateMapped(job, position) ==
    LET value == FirstNonEmpty(position, <<"end_date", "to">>, "") IN
    job.endDate = IF value = "" THEN <<>> ELSE <<value>>

\* C23 (as stated): every mapped field takes the value of the first accepted
\* header alias, in alias order, whose value is a non-empty string, and its
\* literal default when no alias has one; for a job's isCurrent, with aliases
\* is_current and current and default false, the value is read as a boolean
\* ('true' is true).
C23_FirstAliasDecidesEveryField ==
    Transformed =>
        /\ StringFieldsMapped
        /\ \A i \in 1..Len(csvData.positions) :
              LET job == portfolioData.data["experience"].jobs[i]
                  position == csvData.positions[i]
              IN /\ EndDateMapped(job, position)
                 /\ job.isCurrent =
                       (FirstNonEmpty(position, <<"is_current", "current">>, "false") = "true")

\* C23 (amended): every string-valued mapped field of a position, profile or
\* education record takes the value of the first accepted header alias, in
\* alias order, whose value is a non-empty string, and its literal default
\* when no alias has one (null for a job's endDate); a job's isCurrent is true
\* exactly when is_current or current is the string 'true'; achievements is
\* the achievements value split on ';' and skills the skills value split on
\* ',' with its pieces trimmed, each replaced by its default list when the
\* value is empty or absent.
C23_AliasesMapped ==
    Transformed =>
        /\ StringFieldsMapped
        /\ \A i \in 1..Len(csvData.positions) :
              LET job == portfolioData.data["experience"].jobs[i]
                  position == csvData.positions[i]
                  achievements == FirstNonEmpty(position, <<"achievements">>, "")
                  skills == FirstNonEmpty(position, <<"skills">>, "")
              IN /\ EndDateMapped(job, position)
                 /\ job.isCurrent =
                       \/ ("is_current" \in DOMAIN position /\ position["is_current"] = "true")
                       \/ ("current" \in DOMAIN position /\ position["current"] = "true")
                 /\ job.achievements =
                       IF achievements = ""
                       THEN <<"Developed and deployed 3 major features",
                              "Improved application performance by 30%">>
                       ELSE Split(achievements, ";")
                 /\ job.skills =
                       IF skills = "" THEN <<"React", "Node.js", "JavaScript">>
                       ELSE [k \in 1..Len(Split(skills, ",")) |-> Trim(Split(skills, ",")[k])]

\* a job built from a position whose title column is empty and whose
\* job_title column is filled
C23_Witness ==
    /\ Transformed
    /\ Len(csvData.positions) = 1
    /\ DOMAIN csvData.positions[1] = {"title", "job_title"}
    /\ csvData.positions[1]["title"] = ""
    /\ csvData.positions[1]["job_title"] # ""
    /\ portfolioData.data["experience"].jobs[1].title = csvData.positions[1]["job_title"]

-----------------------------------------------------------------------------
(* Claims about the preview (Spec).                                        *)

\* the requests of the import router
ImportRouterRequests ==
    { "POST /preview-csv", "POST /upload-csv", "GET /configure-categorization",
      "POST /configure-categorization" }

\* C24: a step that serves a preview-csv request, whatever its files and
\* preferences and whether it is answered 200, 400, 401 or 500, leaves every
\* section file and the preferences file unchanged; of the requests of the
\* import router only upload-csv changes a section file.
C24_PreviewWritesNothing ==
    [][ /\ response'.request.kind = "POST /preview-csv" =>
              (store' = store /\ preferencesFile' = preferencesFile)
        /\ (response'.request.kind \in ImportRouterRequests /\ store' # store) =>
              response'.request.kind = "POST /upload-csv"
      ]_vars

\* a preview answered 200 with a skills document that differs from the stored
\* skills file
C24_Witness ==
    /\ response.request.kind = "POST /preview-csv"
    /\ response.status = 200
    /\ "skills" \in DOMAIN response.body.portfolioData
    /\ store["skills"] # JsonFile(response.body.portfolioData["skills"])
    /\ store["skills"] # NoFile

-----------------------------------------------------------------------------
(* Claims about skill conservation (SpecCategorize).                       *)

\* the name and level of every input skill record, in input order
InputEntries(skills) ==
    [i \in 1..Len(skills) |-> [name |-> SkillName(skills[i]), level |-> SkillLevel(skills[i])]]

\* the emitted skill entries of all roles, in emission order
RECURSIVE AllEmitted(_)
AllEmitted(categories) ==
    IF Len(categories) = 0 THEN <<>>
    ELSE AllEmitted(SubSeq(categories, 1, Len(categories) - 1))
            \o EmittedSkills(categories[Len(categories)])

Occurrences(seq, x) == Cardinality({i \in 1..Len(seq) : seq[i] = x})

\* the entries of group occur in seq in the same relative order
RECURSIVE IsSubsequence(_, _)
IsSubsequence(group, seq) ==
    IF Len(group) = 0 THEN TRUE
    ELSE IF Len(seq) = 0 THEN FALSE
    ELSE IF Head(group) = Head(seq) THEN IsSubsequence(Tail(group), Tail(seq))
    ELSE IsSubsequence(group, Tail(seq))

\* the skill lists of the emitted categories: the list of a flat role, the
\* list of each subcategory of a nested role
EmittedLists(categories) ==
    { categories[e].skills : e \in {k \in 1..Len(categories) : categories[k].isArray} }
        \cup UNION { { categories[e].subcategories[s].skills :
                          s \in 1..Len(categories[e].subcategories) } :
                     e \in {k \in 1..Len(categories) : ~categories[k].isArray} }

\* every input skill is emitted exactly once with its name and level
EachSkillOnce(skills, categories) ==
    LET input == InputEntries(skills)
        emitted == AllEmitted(categories)
    IN /\ Len(emitted) = Len(input)
       /\ \A i \in 1..Len(input) : Occurrences(emitted, input[i]) = Occurrences(input, input[i])

\* C25: the skillCategories produced from a non-empty sequence of skill
\* records contain each input skill exactly once with its name and level, so
\* that as many entries are emitted as there are input records, and the
\* skills of one flat role or of one subcategory are in their input order.
C25_SkillsConserved ==
    (pc = "done" /\ Len(csvData.skills) > 0) =>
        /\ ~portfolioData.threw
        /\ EachSkillOnce(csvData.skills, EmittedCategories(portfolioData))
        /\ \A list \in EmittedLists(EmittedCategories(portfolioData)) :
              IsSubsequence(list, InputEntries(csvData.skills))

-----------------------------------------------------------------------------
(* Claims about the bulk update (Spec).                                    *)

\* the sections of a bulk body that are unknown or fail their schema
RejectedSections(body) ==
    {section \in DOMAIN body : section \notin ValidSectionSet \/ ~Conforms(section, body[section])}

\* C26: a step that serves an authenticated bulk update whose body names an
\* unknown section or a section that fails its schema answers 400 and
\* leaves every section file unchanged, the files of the valid sections of
\* the same body included.
C26_BulkValidatesBeforeWriting ==
    [][ (/\ response'.request.kind = "PUT /"
         /\ response'.request.token = AdminToken
         /\ RejectedSections(response'.request.body) # {}) =>
            /\ response'.status = 400
            /\ store' = store
      ]_vars

\* a bulk update answered 400 whose body holds, next to the rejected section,
\* a valid section with a document other than the stored one
C26_Witness ==
    /\ response.request.kind = "PUT /"
    /\ response.request.token = AdminToken
    /\ response.status = 400
    /\ \E section \in DOMAIN response.request.body \ RejectedSections(response.request.body) :
          store[section] # JsonFile(response.request.body[section])

-----------------------------------------------------------------------------
(* Claims about concurrent multi-section requests (SpecRace).              *)

\* the request loops over sections: a bulk update or an import
MultiSection(request) == request.kind \in {"PUT /", "POST /upload-csv"}

\* the handlers that wrote the section
WritersOf(section) == {p \in DOMAIN handlers : Len(handlers[p].finished[section]) = 1}

\* C27: after two concurrent multi-section requests (bulk updates or
\* imports) that both passed validation have completed, every section
\* written by exactly one of them holds that request's document, every
\* section written by both holds the whole document of one of the two, and
\* every section written by neither is unchanged.
C27_ConcurrentMultiSectionWrites ==
    (/\ AllResponded
     /\ \A p \in DOMAIN handlers :
           MultiSection(handlers[p].request) /\ handlers[p].status = 200) =>
        \A section \in RaceSections :
            IF WritersOf(section) = {} THEN disk[section] = InitialDisk[section]
            ELSE \E p \in WritersOf(section) :
                    disk[section] = <<handlers[p].finished[section][1].text>>

-----------------------------------------------------------------------------
(* The start of the server: the callback of app.listen runs                *)
(* initializeDataDirectory on data/ and data_example/ (SpecStartup).       *)

MaxStarts == 2

\* the files followed in the two directories, <name>.json
StartupFiles == SectionNames \cup {"categorization"}

NoFiles == [name \in StartupFiles |-> NoFile]

\* a path fs.access rejects
NoDirectory == [exists |-> FALSE, files |-> NoFiles]

Directory(files) == [exists |-> TRUE, files |-> files]

\* fs.mkdir(dataDirPath, { recursive: true })
Mkdir(dir) == IF dir.exists THEN dir ELSE Directory(NoFiles)

\* fs.writeFile(join(dataDirPath, `${section}.json`), data, 'utf8'): the file
\* is created, or replaced when there is one
WriteInto(dir, section, file) == [dir EXCEPT !.files[section] = file]

\* createPlaceholderDataForSection: JSON.stringify of a section placeholderData
\* lacks is undefined, fs.writeFile throws on it inside the try and nothing is
\* written
createPlaceholderDataForSection(dir, section) ==
    IF section \in DOMAIN placeholderData
    THEN WriteInto(dir, section, JsonFile(placeholderData[section]))
    ELSE dir

\* Object.keys(placeholderData)
PlaceholderSections ==
    << "personalInfo", "about", "skills", "experience", "projects", "contact" >>

RECURSIVE PlaceholderLoop(_, _)
PlaceholderLoop(dir, sections) ==
    IF Len(sections) = 0 THEN dir
    ELSE PlaceholderLoop(createPlaceholderDataForSection(dir, Head(sections)), Tail(sections))

createPlaceholderData(dir) == PlaceholderLoop(dir, PlaceholderSections)

\* the sections of copyExampleData
ExampleSections ==
    << "personalInfo", "about", "skills", "experience", "projects", "contact" >>

\* fs.readFile(sourcePath, 'utf8') resolves: the example directory has the
\* file and it can be read
Readable(example, section) == example.files[section] # NoFile

\* the loop of copyExampleData: the text read is written as it is; a section
\* whose file cannot be read gets its placeholder
RECURSIVE CopyLoop(_, _, _)
CopyLoop(dir, example, sections) ==
    IF Len(sections) = 0 THEN dir
    ELSE LET section == Head(sections)
             copied == IF Readable(example, section)
                       THEN WriteInto(dir, section, example.files[section])
                       ELSE createPlaceholderDataForSection(dir, section)
         IN CopyLoop(copied, example, Tail(sections))

copyExampleData(dir, example) == CopyLoop(dir, example, ExampleSections)

\* the same without the look at the data directory
initializeDataDirectoryFrom_Unchecked(dir, example) ==
    IF example.exists THEN copyExampleData(Mkdir(dir), example)
    ELSE createPlaceholderData(Mkdir(dir))

\* initializeDataDirectory on the two directories: the data directory it
\* leaves
initializeDataDirectoryFrom(dir, example) ==
    IF dir.exists THEN dir
    ELSE IF example.exists THEN copyExampleData(Mkdir(dir), example)
    ELSE createPlaceholderData(Mkdir(dir))

\* resetDataDirectory: fs.rm(dataDirPath, { recursive: true, force: true }),
\* then initializeDataDirectory
resetDataDirectory(dir, example) == initializeDataDirectoryFrom(NoDirectory, example)

\* app.listen's callback
Listen ==
    /\ starts < MaxStarts
    /\ starts' = starts + 1
    /\ dataDir' = initializeDataDirectoryFrom(dataDir, exampleDir)
    /\ UNCHANGED exampleDir
    /\ UNCHANGED <<pipelineVars, storeVars, raceVars>>

\* app.post('/api/reset-data'), the route of a server running in development
ResetData ==
    /\ starts > 0
    /\ \E token \in Tokens :
          LET request == [kind |-> "POST /api/reset-data", token |-> token]
          IN IF ~authenticateToken(token)
             THEN /\ response' = Respond(request, Unauthorized.status, Unauthorized.body)
                  /\ UNCHANGED dataDir
             ELSE /\ response' =
                        Respond(request, 200, [message |-> "Data directory reset successfully"])
                  /\ dataDir' = resetDataDirectory(dataDir, exampleDir)
    /\ UNCHANGED <<exampleDir, starts>>
    /\ UNCHANGED <<store, preferencesFile, written, consoleErrors, requests>>
    /\ UNCHANGED <<pipelineVars, raceVars>>

\* ---- the directories a start can find

\* a file of data_example/ holding a document of the section
ExampleFile(section) == JsonFile([example |-> section])

\* a file of data_example/ whose text is no JSON
TextFile == <<[text |-> "to do"]>>

ExampleDirInputs ==
    {NoDirectory}
        \cup { Directory([name \in StartupFiles |->
                             IF name \notin readable THEN NoFile
                             ELSE IF name = "personalInfo" THEN personalInfo
                             ELSE ExampleFile(name)]) :
                 readable \in SUBSET ValidSectionSet,
                 personalInfo \in {ExampleFile("personalInfo"), TextFile} }

\* a data directory the owner has edited: three sections are missing, and
\* there are files the initializer does not know
EditedFiles ==
    [name \in StartupFiles |->
        CASE name = "personalInfo" -> JsonFile([name |-> "Ada Lovelace", title |-> "Analyst"])
          [] name = "about" -> JsonFile([content |-> "Notes on the engine."])
          [] name = "skills" -> JsonFile(placeholderData.skills)
          [] name = "education" -> JsonFile([education |-> <<>>])
          [] name = "categorization" -> JsonFile(DefaultPreferences)
          [] OTHER -> NoFile]

DataDirInputs ==
    { NoDirectory, Directory(NoFiles), Directory(EditedFiles),
      createPlaceholderData(Directory(NoFiles)) }

InitStartup ==
    /\ pc = "idle"
    /\ csvContent = ""
    /\ csvData = EmptyCsvData
    /\ userPreferences = DefaultPreferences
    /\ portfolioData = NoPortfolioData
    /\ store = <<>>
    /\ preferencesFile = <<>>
    /\ written = <<>>
    /\ response = <<>>
    /\ consoleErrors = {}
    /\ requests = 0
    /\ disk = <<>>
    /\ handlers = <<>>
    /\ dataDir \in DataDirInputs
    /\ exampleDir \in ExampleDirInputs
    /\ starts = 0

NextStartup == Listen \/ ResetData

SpecStartup == InitStartup /\ [][NextStartup]_vars

-----------------------------------------------------------------------------
(* Claims about the start of the server (SpecStartup).                     *)

\* the six section files of a new data directory
StartSections == { "personalInfo", "about", "skills", "experience", "projects", "contact" }

\* the file of the section in a data directory made from the example
\* directory: the example's file where there is one to read, else the
\* placeholder of the section
FromExampleOrPlaceholder(example, name) ==
    IF example.exists /\ example.files[name] # NoFile THEN example.files[name]
    ELSE JsonFile(placeholderData[name])

\* C28: a start of the server leaves a data directory that exists as it is,
\* with every file in it and none added, and leaves the example directory
\* alone; a start that finds no data directory leaves one that holds the six
\* section files and no other, each a copy of the example's file where that
\* can be read and the placeholder of the section otherwise.
C28_StartKeepsExistingDirectory ==
    [][starts' = starts + 1
          => /\ exampleDir' = exampleDir
             /\ dataDir.exists => dataDir' = dataDir
             /\ ~dataDir.exists
                   => /\ dataDir'.exists
                      /\ \A name \in StartupFiles :
                            dataDir'.files[name] =
                                IF name \in StartSections
                                THEN FromExampleOrPlaceholder(exampleDir, name)
                                ELSE NoFile]_vars

\* C28 witness: the server has started on the edited data directory while the
\* example directory had a personalInfo file to copy, and the edited file is
\* still there.
C28_Witness ==
    /\ starts > 0
    /\ dataDir = Directory(EditedFiles)
    /\ exampleDir.exists
    /\ exampleDir.files["personalInfo"] = ExampleFile("personalInfo")

=============================================================================
